---- MODULE Spec2Model ----
(***************************************************************************)
(* Print-job capture and delivery pipeline of Open PDF Creator.            *)
(*                                                                         *)
(*   Producer  : printer/linux/cups_backend.py  (one process per job)      *)
(*   Consumer  : service/print_handler.py       (PrintJobHandler)          *)
(*   Shared    : /tmp/open-pdf-creator-spool/<user>/pending_jobs.json,     *)
(*               the payload files, the unix socket path and the TCP port. *)
(*                                                                         *)
(* Every system call on a shared object is one step, so that the           *)
(* interleavings of processes and threads on the files are explored.       *)
(***************************************************************************)
EXTENDS Integers, Sequences, FiniteSets, TLC

\* ------------------------------------------------------------------ bounds
ChunkSize == 2       \* bytes one read of the copy loop asks for
MaxStream == 3       \* bytes of a payload stream
MaxOld == 2          \* records in the pending file before the run starts
NumProducers == 2    \* backend invocations in one run
MaxStarts == 2       \* start() calls of one Consumer (over all its lifetimes)
MaxForeign == 2      \* connections made by processes other than the backend
MaxBody == 2         \* characters of a title that are drawn freely
MaxCrashes == 1      \* times a Consumer process ends without stop()

OldJobs == 1..MaxOld
Producers == (MaxOld + 1)..(MaxOld + NumProducers)  \* producer p submits job p
Jobs == OldJobs \cup Producers
Consumers == {"c1", "c2"}
Transports == {"unix", "tcp"}
Gens == 1..MaxStarts
ThreadIds == Consumers \X Gens \X Transports   \* a listener thread and its socket
NoSock == <<"none", 0, "none">>

VARIABLES
    pfile,      \* pending_jobs.json of the user: [kind, jobs, size]
    payload,    \* payload file of each job: "absent" | "partial" | "complete"
    prod,       \* the backend process of each job
    unixPath,   \* socket bound at SOCKET_PATH (the file exists iff # NoSock)
    tcpPort,    \* socket bound on 127.0.0.1:19876
    socks,      \* kernel state of each socket: [state, queue]
    cons,       \* PrintJobHandler object and main thread of each Consumer
    threads,    \* listener threads
    emitted,    \* job_received emissions of each Consumer process, in order
    hist        \* observations: what was read, raised, acknowledged, launched

vars == <<pfile, payload, prod, unixPath, tcpPort, socks, cons, threads, emitted, hist>>

\* ------------------------------------------------------- the pending file
Absent == [kind |-> "absent", jobs |-> <<>>, size |-> 0]
Empty == [kind |-> "empty", jobs |-> <<>>, size |-> 0]
Array(s) == [kind |-> "array", jobs |-> s, size |-> Len(s)]

\* open(pending_file, "w"): creates the file or truncates it to zero bytes.
Truncate(f) == Empty

\* json.dump(data, f) through a descriptor opened before: the bytes land at
\* offset 0 of whatever the file holds now.  Bytes another writer put beyond
\* our last byte stay: the result is then no JSON document.  Records are
\* taken to have equal size.
Overlay(f, s) ==
    IF f.size <= Len(s) THEN Array(s)
    ELSE [kind |-> "garbage", jobs |-> <<>>, size |-> f.size]

\* An element of the JSON array that is no object (a number, a string).
BadRecord == 0

\* What a file that no run of this program wrote can hold: text that is no
\* JSON, a JSON value that is no array, an array with an element that is no
\* object.
ForeignFiles == {[kind |-> "garbage", jobs |-> <<>>, size |-> 1],
                 [kind |-> "object", jobs |-> <<>>, size |-> 1],
                 Array(<<BadRecord>>)}

\* json.load(f) of the file: a list, a value that is no list, or an error
\* (JSONDecodeError on empty or damaged text, OSError on a missing file).
Parses(f) == f.kind \in {"array", "object"}
IsList(f) == f.kind = "array"

\* ---------------------------------------------------------------- helpers
Range(s) == {s[i] : i \in 1..Len(s)}

RECURSIVE SeqOfSet(_)
SeqOfSet(S) == IF S = {} THEN <<>>
               ELSE LET m == CHOOSE x \in S : \A y \in S : x <= y
                    IN <<m>> \o SeqOfSet(S \ {m})

\* Unlinking the path detaches every descriptor that is open on the file.
DetachProd == [p \in Producers |-> [prod[p] EXCEPT !.fd = FALSE]]
DetachCons == [c \in Consumers |-> [cons[c] EXCEPT !.fd = FALSE]]

\* ------------------------------------------------------------------ Init
\* Before the run the pending file is absent or holds the records of earlier
\* backend runs, oldest first; an earlier job's payload file may be gone.
InitFile == {Absent} \cup {Array(SeqOfSet(1..k)) : k \in 1..MaxOld}

\* What can go wrong around a backend run without being its business: the
\* spool directory cannot be created / chmod-ed / chown-ed ("spool"), the
\* user is not in the password database ("user"), no launch command can be
\* executed ("launch").
Faults == {"spool", "user", "launch"}

NewProducer == [pc |-> "open_payload", pending_jobs |-> <<>>, seen |-> <<>>,
                fd |-> FALSE, status |-> -1, notified |-> FALSE, exc |-> FALSE,
                faults |-> {}, gui |-> "none", via |-> <<>>,
                title |-> <<>>, safe_title |-> <<>>,
                job_id |-> <<>>, user |-> <<>>, copies |-> 1, options |-> <<>>,
                job_path |-> [abs |-> FALSE, parts |-> <<>>],
                timestamp |-> <<"20240101_120000">>, wire |-> <<>>,
                argv |-> <<>>, out |-> 0, stream |-> <<>>, written |-> <<>>,
                mkdir |-> FALSE]

\* ---------------------------------------------------------------- Settings
\* core/settings.py.  The values a Settings object and a JSON document hold,
\* each with its Python type: a text, an integer, a truth value, a list, a
\* dictionary (a sequence of <<key, value>> in insertion order), a member of
\* one of the two Enum classes.
PyStr(s) == [t |-> "str", v |-> s]
PyInt(n) == [t |-> "int", v |-> n]
PyBool(b) == [t |-> "bool", v |-> b]
PyList(l) == [t |-> "list", v |-> l]
PyDict(ms) == [t |-> "dict", v |-> ms]
PyEnum(cls, name) == [t |-> "enum", v |-> <<cls, name>>]

\* class OutputFormat, class ImageQuality: the members by name.
Members(cls) == IF cls = "OutputFormat" THEN {"PDF", "PNG", "JPEG", "TIFF"}
                ELSE {"LOW", "MEDIUM", "HIGH", "MAXIMUM"}

\* member.value
EnumValue(m) ==
    CASE m[2] = "PDF" -> <<"p", "d", "f">>
      [] m[2] = "PNG" -> <<"p", "n", "g">>
      [] m[2] = "JPEG" -> <<"j", "p", "e", "g">>
      [] m[2] = "TIFF" -> <<"t", "i", "f", "f">>
      [] m[2] = "LOW" -> <<"l", "o", "w">>
      [] m[2] = "MEDIUM" -> <<"m", "e", "d", "i", "u", "m">>
      [] m[2] = "HIGH" -> <<"h", "i", "g", "h">>
      [] m[2] = "MAXIMUM" -> <<"m", "a", "x", "i", "m", "u", "m">>

\* The fields of the dataclass in their order, without _config_path.
PublicFields == <<"default_output_dir", "default_format", "filename_template",
                  "image_quality", "auto_save", "show_preview", "remember_last_dir",
                  "last_used_dir", "recent_directories", "max_recent_dirs",
                  "printer_name", "window_geometry", "start_minimized",
                  "minimize_to_tray">>

WindowGeometry(x, y, width, height) ==
    PyDict(<< <<<<"x">>, PyInt(x)>>, <<<<"y">>, PyInt(y)>>,
              <<<<"width">>, PyInt(width)>>, <<<<"height">>, PyInt(height)>> >>)

\* Settings(_config_path=...): the defaults, with __post_init__'s
\* default_output_dir.
DefaultSettings ==
    [default_output_dir |-> PyStr(<<"Documents", "/", "PDFs">>),
     default_format |-> PyEnum("OutputFormat", "PDF"),
     filename_template |-> PyStr(<<"{title}_{date}">>),
     image_quality |-> PyEnum("ImageQuality", "HIGH"),
     auto_save |-> PyBool(FALSE),
     show_preview |-> PyBool(TRUE),
     remember_last_dir |-> PyBool(TRUE),
     last_used_dir |-> PyStr(<<>>),
     recent_directories |-> PyList(<<>>),
     max_recent_dirs |-> PyInt(10),
     printer_name |-> PyStr(<<"Open PDF Creator">>),
     window_geometry |-> WindowGeometry(100, 100, 900, 700),
     start_minimized |-> PyBool(FALSE),
     minimize_to_tray |-> PyBool(TRUE)]

\* The settings file: its text when it exists.  by tells who wrote it last
\* ("save", or "other" for a file from elsewhere) and of what save() was
\* called on.
NoConfig == [exists |-> FALSE, text |-> <<>>, by |-> "none", of |-> <<>>]

DeadConsumer == [mpc |-> "dead", running |-> FALSE,
                 unix_socket |-> NoSock, tcp_socket |-> NoSock,
                 pending_jobs |-> <<>>, jobs_data |-> <<>>, idx |-> 0,
                 inEmit |-> FALSE, data |-> <<>>, fd |-> FALSE, ret |-> "dead",
                 exc |-> FALSE,
                 starts |-> 0, crashes |-> 0, slot |-> FALSE,
                 settings |-> DefaultSettings, config |-> NoConfig,
                 adds |-> 0, added |-> <<>>]

\* What a connection carries when it is not the record of a job: bytes that
\* are not JSON, JSON that is not an object, no bytes before the close, or
\* nothing at all so far (the sender neither sends nor closes).
NotJson == 0 - 1
NotObject == 0 - 2
NoBytes == 0 - 3
Hung == 0 - 4
Malformed == {NotJson, NotObject, NoBytes}

NoThread == [pc |-> "none", msg |-> 0]
NoSocket == [state |-> "none", queue |-> <<>>]

Init ==
    /\ pfile \in InitFile
    /\ payload \in [Jobs -> {"absent", "complete"}]
    /\ \A j \in Producers : payload[j] = "absent"
    /\ \A j \in OldJobs : j \notin Range(pfile.jobs) => payload[j] = "absent"
    /\ prod = [p \in Producers |-> NewProducer]
    /\ unixPath = NoSock
    /\ tcpPort = NoSock
    /\ socks = [t \in ThreadIds |-> NoSocket]
    /\ cons = [c \in Consumers |-> DeadConsumer]
    /\ threads = [t \in ThreadIds |-> NoThread]
    /\ emitted = [c \in Consumers |-> <<>>]
    /\ hist = [initial |-> pfile.jobs, badRead |-> FALSE, raised |-> {},
               acked |-> {}, tried |-> {}, wrote |-> {}, launches |-> {},
               foreign |-> 0, dropped |-> {}, afterDrop |-> {}, resaved |-> {}]

\* ============================================================== Producer
\* cups_backend.py: process_job, notify_gui, start_gui_with_job, __main__.

\* process_job returns `code`.
Return(r, code) == [r EXCEPT !.pc = "done", !.status = code]
\* An exception leaves process_job and main; __main__ catches it: exit(1).
Raise(r) == [r EXCEPT !.pc = "done", !.status = 1, !.exc = TRUE]

\* Mutant of PayloadFailed: the failure is logged and the run goes on.
PayloadFailedGoesOn(r) == [r EXCEPT !.pc = "notify_unix"]

\* The payload write raised: log_error, return 1.
PayloadFailed(r) == Return(r, 1)

\* ---------------------------------------------------------- job file name
\* A string is a sequence of characters.  str.isalnum() is true for the
\* letters and digits of every script, not only for [A-Za-z0-9].
SegmentLimit == 50
AsciiLetters == {"a", "I", "n", "v", "o", "i", "c", "e"}
AsciiDigits == {"0", "2", "4"}
OtherAlnum == {"e_acute"}
IsAlnum(c) == c \in AsciiLetters \cup AsciiDigits \cup OtherAlnum

Take(s, n) == SubSeq(s, 1, IF Len(s) < n THEN Len(s) ELSE n)
Replace(s, keep) == [i \in 1..Len(s) |-> IF IsAlnum(s[i]) \/ s[i] \in keep THEN s[i] ELSE "_"]

\* "".join(c if c.isalnum() or c in "._-" else "_" for c in title)[:50]
SafeTitle(t) == Take(Replace(t, {".", "_", "-"}), SegmentLimit)
\* cups_backend_standalone.py: the same with "._- "
SafeTitleStandalone(t) == Take(Replace(t, {".", "_", "-", " "}), SegmentLimit)

\* ------------------------------------------------------------------ paths
\* pathlib on POSIX: a path is a root flag and the components between the
\* slashes, without the empty ones and without ".".  A text is a sequence of
\* characters; a name that is spelled the same everywhere is one character.
RECURSIVE SplitFrom(_, _, _)
SplitFrom(text, cur, acc) ==
    IF text = <<>> THEN Append(acc, cur)
    ELSE IF Head(text) = "/" THEN SplitFrom(Tail(text), <<>>, Append(acc, cur))
    ELSE SplitFrom(Tail(text), Append(cur, Head(text)), acc)
IsComponent(c) == c # <<>> /\ c # <<".">>
PathOf(text) == [abs |-> text # <<>> /\ Head(text) = "/",
                 parts |-> SelectSeq(SplitFrom(text, <<>>, <<>>), IsComponent)]
\* path / text: an absolute right operand replaces the left one.
PathJoin(path, text) ==
    IF PathOf(text).abs THEN PathOf(text)
    ELSE [path EXCEPT !.parts = @ \o PathOf(text).parts]
RECURSIVE JoinParts(_)
JoinParts(parts) ==
    IF Len(parts) = 1 THEN parts[1]
    ELSE parts[1] \o <<"/">> \o JoinParts(Tail(parts))
StrOf(path) ==
    IF path.parts = <<>> THEN (IF path.abs THEN <<"/">> ELSE <<".">>)
    ELSE (IF path.abs THEN <<"/">> ELSE <<>>) \o JoinParts(path.parts)

\* Where the kernel ends up when it walks the path (no symbolic links): ".."
\* steps back, and stays at the top when there is nothing to step back from.
RECURSIVE ResolveParts(_, _)
ResolveParts(parts, acc) ==
    IF parts = <<>> THEN acc
    ELSE IF Head(parts) = <<".", ".">>
         THEN ResolveParts(Tail(parts), IF acc = <<>> THEN <<>> ELSE SubSeq(acc, 1, Len(acc) - 1))
    ELSE ResolveParts(Tail(parts), Append(acc, Head(parts)))
Resolve(path) == [path EXCEPT !.parts = ResolveParts(@, <<>>)]
Below(dir, path) ==
    /\ Len(dir.parts) < Len(path.parts)
    /\ SubSeq(path.parts, 1, Len(dir.parts)) = dir.parts
    /\ dir.abs = path.abs

\* The directory under which get_spool_dir puts the users' directories.
SpoolRoot == PathJoin(PathOf(<<"/", "tmp">>), <<"open-pdf-creator-spool">>)

\* get_spool_dir(username) of the backend.
SpoolDir(username) == PathJoin(SpoolRoot, username)
\* job_filename and job_path of process_job.
JobFilename(r) ==
    r.timestamp \o <<"_">> \o r.job_id \o <<"_">> \o SafeTitle(r.title) \o <<".pdf">>
JobPath(r) == PathJoin(SpoolDir(r.user), JobFilename(r))

\* ------------------------------------------------------------ wire format
\* json.dumps(job_info).encode() + b"\n" on the sending side; recv up to the
\* newline, decode().strip(), json.loads and PrintJob.from_dict on the
\* receiving side.  A text is a sequence of characters; DQ is the double
\* quote, BS the backslash, LF the newline.
DQ == "dq"
BS == "bs"
LF == "lf"
DigitChars == <<"0", "1", "2", "3", "4", "5", "6", "7", "8", "9">>

RECURSIVE Flatten(_)
Flatten(ss) == IF ss = <<>> THEN <<>> ELSE Head(ss) \o Flatten(Tail(ss))

\* Mutant of EscapeChar: every character is written as it is.
EscapeCharPlain(c) == <<c>>

\* json.dumps of a character inside a string (ensure_ascii is on).
EscapeChar(c) ==
    CASE c = DQ -> <<BS, DQ>>
      [] c = BS -> <<BS, BS>>
      [] c = LF -> <<BS, "n">>
      [] c \in OtherAlnum -> <<BS, "u", c>>
      [] OTHER -> <<c>>
DumpsStr(str) == <<DQ>> \o Flatten([i \in 1..Len(str) |-> EscapeChar(str[i])]) \o <<DQ>>

RECURSIVE DumpsNat(_)
DumpsNat(n) == IF n < 10 THEN <<DigitChars[n + 1]>>
               ELSE DumpsNat(n \div 10) \o <<DigitChars[(n % 10) + 1]>>
DumpsInt(n) == IF n < 0 THEN <<"-">> \o DumpsNat(0 - n) ELSE DumpsNat(n)

\* The dictionary process_job builds, in the order of its keys: a sequence of
\* <<key, kind, value>>.
JobInfo(r) == << <<"job_id", "str", r.job_id>>, <<"user", "str", r.user>>,
                 <<"title", "str", r.title>>, <<"copies", "int", r.copies>>,
                 <<"options", "str", r.options>>,
                 <<"file_path", "str", StrOf(r.job_path)>>,
                 <<"timestamp", "str", r.timestamp>> >>

DumpsMember(m) == DumpsStr(<<m[1]>>) \o <<":", " ">>
                  \o (IF m[2] = "int" THEN DumpsInt(m[3]) ELSE DumpsStr(m[3]))
DumpsObject(ms) ==
    <<"{">> \o Flatten([i \in 1..Len(ms) |->
                          (IF i > 1 THEN <<",", " ">> ELSE <<>>) \o DumpsMember(ms[i])])
           \o <<"}">>
Wire(r) == DumpsObject(JobInfo(r)) \o <<LF>>

\* The receiving side: recv(RecvSize) returns what has arrived, at most
\* RecvSize bytes, and the loop ends behind the first read that brings a
\* newline or at the end of the stream.  What the loop can end with ...
RecvSize == 4096
HasNewline(w) == \E i \in 1..Len(w) : w[i] = LF
FirstNewline(w) == CHOOSE i \in 1..Len(w) : w[i] = LF /\ \A k \in 1..(i - 1) : w[k] # LF
Receptions(w) ==
    IF HasNewline(w)
    THEN {SubSeq(w, 1, n) : n \in {m \in FirstNewline(w)..Len(w) : m < FirstNewline(w) + RecvSize}}
    ELSE {w}
\* ... without the white space at both ends ...
IsSpace(c) == c \in {" ", LF}
RECURSIVE Strip(_)
Strip(w) == IF w # <<>> /\ IsSpace(Head(w)) THEN Strip(Tail(w))
            ELSE IF w # <<>> /\ IsSpace(w[Len(w)]) THEN Strip(SubSeq(w, 1, Len(w) - 1))
            ELSE w

\* ... parsed.  A parse result is [ok, val, next]: the value and the position
\* behind it.
Failed == [ok |-> FALSE, val |-> <<>>, next |-> 0]
DigitOf(c) == (CHOOSE d \in 1..10 : DigitChars[d] = c) - 1
IsDigit(c) == \E d \in 1..10 : DigitChars[d] = c

RECURSIVE LoadsStrFrom(_, _, _)
LoadsStrFrom(w, i, acc) ==
    IF i > Len(w) THEN Failed
    ELSE IF w[i] = DQ THEN [ok |-> TRUE, val |-> acc, next |-> i + 1]
    ELSE IF w[i] = LF THEN Failed
    ELSE IF w[i] # BS THEN LoadsStrFrom(w, i + 1, Append(acc, w[i]))
    ELSE IF i + 1 > Len(w) THEN Failed
    ELSE IF w[i + 1] = DQ THEN LoadsStrFrom(w, i + 2, Append(acc, DQ))
    ELSE IF w[i + 1] = BS THEN LoadsStrFrom(w, i + 2, Append(acc, BS))
    ELSE IF w[i + 1] = "n" THEN LoadsStrFrom(w, i + 2, Append(acc, LF))
    ELSE IF w[i + 1] = "u" /\ i + 2 <= Len(w)
         THEN LoadsStrFrom(w, i + 3, Append(acc, w[i + 2]))
    ELSE Failed

RECURSIVE LoadsNatFrom(_, _, _)
LoadsNatFrom(w, i, acc) ==
    IF i <= Len(w) /\ IsDigit(w[i]) THEN LoadsNatFrom(w, i + 1, 10 * acc + DigitOf(w[i]))
    ELSE [ok |-> TRUE, val |-> acc, next |-> i]

LoadsValue(w, i) ==
    IF i > Len(w) THEN Failed
    ELSE IF w[i] = DQ THEN LoadsStrFrom(w, i + 1, <<>>)
    ELSE IF w[i] = "-" /\ i + 1 <= Len(w) /\ IsDigit(w[i + 1])
         THEN LET r == LoadsNatFrom(w, i + 1, 0) IN [r EXCEPT !.val = 0 - r.val]
    ELSE IF IsDigit(w[i]) THEN LoadsNatFrom(w, i, 0)
    ELSE Failed

\* The members of an object from position i on: a sequence of <<key, value>>.
RECURSIVE LoadsMembers(_, _, _)
LoadsMembers(w, i, acc) ==
    IF i > Len(w) \/ w[i] # DQ THEN Failed
    ELSE LET k == LoadsStrFrom(w, i + 1, <<>>) IN
         IF ~k.ok \/ k.next + 1 > Len(w) \/ w[k.next] # ":" \/ w[k.next + 1] # " " THEN Failed
         ELSE LET v == LoadsValue(w, k.next + 2) IN
              IF ~v.ok \/ v.next > Len(w) THEN Failed
              ELSE IF w[v.next] = "}"
                   THEN IF v.next = Len(w)
                        THEN [ok |-> TRUE, val |-> Append(acc, <<k.val, v.val>>), next |-> v.next + 1]
                        ELSE Failed
              ELSE IF w[v.next] = "," /\ v.next + 1 <= Len(w) /\ w[v.next + 1] = " "
                   THEN LoadsMembers(w, v.next + 2, Append(acc, <<k.val, v.val>>))
              ELSE Failed

Loads(w) == IF w # <<>> /\ w[1] = "{" THEN LoadsMembers(w, 2, <<>>) ELSE Failed

\* data.get(key, default) on the parsed object.
Get(ms, key, default) ==
    IF \E i \in 1..Len(ms) : ms[i][1] = <<key>>
    THEN ms[CHOOSE i \in 1..Len(ms) : ms[i][1] = <<key>> /\ \A k \in (i + 1)..Len(ms) : ms[k][1] # <<key>>][2]
    ELSE default

\* PrintJob.from_dict; the timestamp default is the clock's reading.  The
\* dataclass default processed = False is set where the job is built.
FromDict(ms) == [job_id |-> Get(ms, "job_id", <<>>), user |-> Get(ms, "user", <<>>),
                 title |-> Get(ms, "title", <<"U", "n", "t", "i", "t", "l", "e", "d">>),
                 copies |-> Get(ms, "copies", 1), options |-> Get(ms, "options", <<>>),
                 file_path |-> PathOf(Get(ms, "file_path", <<>>)),
                 timestamp |-> Get(ms, "timestamp", <<"now">>)]

\* int(text): white space around the number is dropped, a sign may lead, the
\* digits may be grouped by single underscores; anything else is a
\* ValueError.
Digits(text) == SelectSeq(text, IsDigit)
Unsigned(text) == IF text # <<>> /\ Head(text) \in {"+", "-"} THEN Tail(text) ELSE text
IsIntText(text) ==
    LET b == Unsigned(Strip(text)) IN
    /\ b # <<>>
    /\ \A i \in 1..Len(b) :
          \/ IsDigit(b[i])
          \/ b[i] = "_" /\ 1 < i /\ i < Len(b) /\ IsDigit(b[i - 1]) /\ IsDigit(b[i + 1])
IntOf(text) ==
    LET t == Strip(text)
        n == LoadsNatFrom(Digits(t), 1, 0).val
    IN IF Head(t) = "-" THEN 0 - n ELSE n

\* try: copies = int(sys.argv[4]) / except ValueError: copies = 1.
CopiesOf(text) == IF IsIntText(text) THEN IntOf(text) ELSE 1

\* ------------------------------------------------- Settings: save and load
\* json.dump(data, f, indent=2, ensure_ascii=False): every character but the
\* quote, the backslash and the newline is written as it is.
EscapeCharUtf8(c) ==
    CASE c = DQ -> <<BS, DQ>>
      [] c = BS -> <<BS, BS>>
      [] c = LF -> <<BS, "n">>
      [] OTHER -> <<c>>
DumpsStrUtf8(str) ==
    <<DQ>> \o Flatten([i \in 1..Len(str) |-> EscapeCharUtf8(str[i])]) \o <<DQ>>

Indent == 2
NewLine(n) == <<LF>> \o [i \in 1..n |-> " "]

\* The document with indent: an empty list or dictionary in one piece, the
\* items of the others one per line.
RECURSIVE DumpJ(_, _)
DumpJ(x, ind) ==
    CASE x.t = "str" -> DumpsStrUtf8(x.v)
      [] x.t = "int" -> DumpsInt(x.v)
      [] x.t = "bool" -> IF x.v THEN <<"t", "r", "u", "e">> ELSE <<"f", "a", "l", "s", "e">>
      [] x.t = "list" ->
            IF x.v = <<>> THEN <<"[", "]">>
            ELSE <<"[">>
                 \o Flatten([i \in 1..Len(x.v) |->
                               (IF i > 1 THEN <<",">> ELSE <<>>) \o NewLine(ind + Indent)
                               \o DumpJ(x.v[i], ind + Indent)])
                 \o NewLine(ind) \o <<"]">>
      [] x.t = "dict" ->
            IF x.v = <<>> THEN <<"{", "}">>
            ELSE <<"{">>
                 \o Flatten([i \in 1..Len(x.v) |->
                               (IF i > 1 THEN <<",">> ELSE <<>>) \o NewLine(ind + Indent)
                               \o DumpsStrUtf8(x.v[i][1]) \o <<":", " ">>
                               \o DumpJ(x.v[i][2], ind + Indent)])
                 \o NewLine(ind) \o <<"}">>

\* save(): asdict without the private field, an Enum member by its value.
SaveData(s) ==
    [i \in 1..Len(PublicFields) |->
        <<<<PublicFields[i]>>,
          IF s[PublicFields[i]].t = "enum" THEN PyStr(EnumValue(s[PublicFields[i]].v))
          ELSE s[PublicFields[i]]>>]
SaveText(s) == DumpJ(PyDict(SaveData(s)), 0)
Saved(s) == [exists |-> TRUE, text |-> SaveText(s), by |-> "save", of |-> s]

\* json.load: white space between the tokens is skipped.
RECURSIVE SkipWs(_, _)
SkipWs(w, i) == IF i <= Len(w) /\ IsSpace(w[i]) THEN SkipWs(w, i + 1) ELSE i
StartsWith(w, i, lit) ==
    i + Len(lit) - 1 <= Len(w) /\ SubSeq(w, i, i + Len(lit) - 1) = lit
Tagged(r, t) == IF r.ok THEN [r EXCEPT !.val = [t |-> t, v |-> r.val]] ELSE Failed

RECURSIVE ParseJ(_, _)
RECURSIVE ParseItems(_, _, _)
RECURSIVE ParseMembers(_, _, _)
ParseJ(w, i) ==
    LET j == SkipWs(w, i) IN
    IF j > Len(w) THEN Failed
    ELSE IF w[j] = DQ THEN Tagged(LoadsStrFrom(w, j + 1, <<>>), "str")
    ELSE IF w[j] = "-" \/ IsDigit(w[j]) THEN Tagged(LoadsValue(w, j), "int")
    ELSE IF StartsWith(w, j, <<"t", "r", "u", "e">>)
         THEN [ok |-> TRUE, val |-> PyBool(TRUE), next |-> j + 4]
    ELSE IF StartsWith(w, j, <<"f", "a", "l", "s", "e">>)
         THEN [ok |-> TRUE, val |-> PyBool(FALSE), next |-> j + 5]
    ELSE IF w[j] = "[" THEN ParseItems(w, j + 1, <<>>)
    ELSE IF w[j] = "{" THEN ParseMembers(w, j + 1, <<>>)
    ELSE Failed
ParseItems(w, i, acc) ==
    LET j == SkipWs(w, i) IN
    IF j > Len(w) THEN Failed
    ELSE IF w[j] = "]" /\ acc = <<>> THEN [ok |-> TRUE, val |-> PyList(<<>>), next |-> j + 1]
    ELSE LET x == ParseJ(w, j) IN
         IF ~x.ok THEN Failed
         ELSE LET k == SkipWs(w, x.next) IN
              IF k > Len(w) THEN Failed
              ELSE IF w[k] = "," THEN ParseItems(w, k + 1, Append(acc, x.val))
              ELSE IF w[k] = "]"
                   THEN [ok |-> TRUE, val |-> PyList(Append(acc, x.val)), next |-> k + 1]
              ELSE Failed
ParseMembers(w, i, acc) ==
    LET j == SkipWs(w, i) IN
    IF j > Len(w) THEN Failed
    ELSE IF w[j] = "}" /\ acc = <<>> THEN [ok |-> TRUE, val |-> PyDict(<<>>), next |-> j + 1]
    ELSE IF w[j] # DQ THEN Failed
    ELSE LET key == LoadsStrFrom(w, j + 1, <<>>) IN
         IF ~key.ok THEN Failed
         ELSE LET c == SkipWs(w, key.next) IN
              IF c > Len(w) \/ w[c] # ":" THEN Failed
              ELSE LET x == ParseJ(w, c + 1) IN
                   IF ~x.ok THEN Failed
                   ELSE LET k == SkipWs(w, x.next) IN
                        IF k > Len(w) THEN Failed
                        ELSE IF w[k] = ","
                             THEN ParseMembers(w, k + 1, Append(acc, <<key.val, x.val>>))
                        ELSE IF w[k] = "}"
                             THEN [ok |-> TRUE, val |-> PyDict(Append(acc, <<key.val, x.val>>)),
                                   next |-> k + 1]
                        ELSE Failed
JsonLoad(w) ==
    LET r == ParseJ(w, 1) IN
    IF r.ok /\ SkipWs(w, r.next) > Len(w) THEN r ELSE Failed

\* OutputFormat(value), ImageQuality(value): the member with that value, or
\* a ValueError.
IsMemberValue(cls, x) == x.t = "str" /\ \E m \in Members(cls) : EnumValue(<<cls, m>>) = x.v
MemberOf(cls, x) == PyEnum(cls, CHOOSE m \in Members(cls) : EnumValue(<<cls, m>>) = x.v)
EnumFields == [default_format |-> "OutputFormat", image_quality |-> "ImageQuality"]
HasKey(ms, key) == \E i \in 1..Len(ms) : ms[i][1] = <<key>>
ValueErrorIn(ms) ==
    \E k \in DOMAIN EnumFields :
        HasKey(ms, k) /\ ~IsMemberValue(EnumFields[k], Get(ms, k, PyStr(<<>>)))

\* The loop over data.items(): setattr for the keys that are public fields
\* (the keys of the documents here are fields, or names of no attribute).
IsField(key) == Len(key) = 1 /\ \E i \in 1..Len(PublicFields) : PublicFields[i] = key[1]
RECURSIVE SetAttrs(_, _, _)
SetAttrs(s, ms, i) ==
    IF i > Len(ms) THEN s
    ELSE IF ~IsField(ms[i][1]) THEN SetAttrs(s, ms, i + 1)
    ELSE LET k == ms[i][1][1] IN
         SetAttrs([s EXCEPT ![k] = IF k \in DOMAIN EnumFields
                                   THEN MemberOf(EnumFields[k], Get(ms, k, PyStr(<<>>)))
                                   ELSE ms[i][2]],
                  ms, i + 1)

\* Mutant of LoadSettings: the fields in front of a bad enum value are taken.
LoadSettingsPartly(f) ==
    IF ~f.exists THEN DefaultSettings
    ELSE LET r == JsonLoad(f.text) IN
         IF ~r.ok \/ r.val.t # "dict" THEN DefaultSettings
         ELSE SetAttrs(DefaultSettings,
                       SelectSeq(r.val.v, LAMBDA m : m[1][1] \notin DOMAIN EnumFields),
                       1)

\* Settings.load(config_path): the defaults when the file is missing, is no
\* JSON or has a bad enum value (the exception is caught and printed).
LoadSettings(f) ==
    IF ~f.exists THEN DefaultSettings
    ELSE LET r == JsonLoad(f.text) IN
         IF ~r.ok \/ r.val.t # "dict" THEN DefaultSettings
         ELSE IF ValueErrorIn(r.val.v) THEN DefaultSettings
         ELSE SetAttrs(DefaultSettings, r.val.v, 1)

\* ------------------------------------------- Settings: recent directories
\* Path(directory).resolve(): a relative path starts at the current directory.
Cwd == PathOf(<<"/", "home">>)
ResolveText(directory) ==
    StrOf(Resolve(IF PathOf(directory).abs THEN PathOf(directory)
                  ELSE PathJoin(Cwd, directory)))

\* list.remove(x): the first occurrence goes.
RemoveFirst(l, x) ==
    LET i == CHOOSE k \in 1..Len(l) : l[k] = x /\ \A h \in 1..(k - 1) : l[h] # x
    IN  SubSeq(l, 1, i - 1) \o SubSeq(l, i + 1, Len(l))
\* l[:n]
Slice(l, n) ==
    IF n >= Len(l) THEN l
    ELSE IF n >= 0 THEN SubSeq(l, 1, n)
    ELSE IF Len(l) + n > 0 THEN SubSeq(l, 1, Len(l) + n)
    ELSE <<>>

\* Mutant of AddRecentDirectory: the directory is put in front as it is.
AddRecentDirectoryTwice(s, directory) ==
    LET dir_path == PyStr(ResolveText(directory)) IN
    [s EXCEPT !.recent_directories =
                  PyList(Slice(<<dir_path>> \o s.recent_directories.v, s.max_recent_dirs.v)),
              !.last_used_dir = IF s.remember_last_dir.v THEN dir_path ELSE @]

\* add_recent_directory(directory)
AddRecentDirectory(s, directory) ==
    LET dir_path == PyStr(ResolveText(directory))
        old == s.recent_directories.v
        removed == IF \E k \in 1..Len(old) : old[k] = dir_path
                   THEN RemoveFirst(old, dir_path) ELSE old
    IN  [s EXCEPT !.recent_directories =
                      PyList(Slice(<<dir_path>> \o removed, s.max_recent_dirs.v)),
                  !.last_used_dir = IF s.remember_last_dir.v THEN dir_path ELSE @]

\* main(): argv holds the arguments behind the program's name.  No argument:
\* discovery_mode prints the device line, return 0.  Fewer than five: the
\* usage line on stderr, return 1.  Otherwise process_job with the first five
\* (and the file to print, when there is a sixth).
P_Main(p) ==
    /\ prod[p].pc = "main"
    /\ LET argc == Len(prod[p].argv) + 1
           argv == prod[p].argv IN
       prod' = [prod EXCEPT ![p] =
                  IF argc = 1 THEN Return([@ EXCEPT !.out = 1], 0)
                  ELSE IF argc < 6 THEN Return(@, 1)
                  ELSE [@ EXCEPT !.pc = "prepare", !.job_id = argv[1], !.user = argv[2],
                                 !.title = argv[3], !.copies = CopiesOf(argv[4]),
                                 !.options = argv[5]]]
    /\ UNCHANGED <<pfile, payload, unixPath, tcpPort, socks, cons, threads, emitted, hist>>

\* The payload files are known by their jobs; two invocations that came to
\* the same job_path share one file.
SameFile(j) ==
    {j} \cup (IF j \in Producers /\ prod[j].job_path.parts # <<>>
              THEN {q \in Producers : prod[q].job_path = prod[j].job_path}
              ELSE {})
\* The file of job j after a write (v) or an unlink.
Filed(j, v) == [k \in Jobs |-> IF k \in SameFile(j) THEN v ELSE payload[k]]
Unlinked(j) == Filed(j, "absent")
\* What is at path when invocation p comes to that name.
FoundAt(p, path) ==
    LET Same == {q \in Producers \ {p} : prod[q].job_path = path}
    IN  IF Same = {} THEN payload[p] ELSE payload[CHOOSE q \in Same : TRUE]

\* process_job up to the payload write: mkdir and chmod of the spool
\* directory and its parent, getpwnam and chown (every exception is caught,
\* with pass or a logged warning, and the run goes on), then the name of the
\* job file.
P_Prepare(p) ==
    /\ prod[p].pc = "prepare"
    /\ prod' = [prod EXCEPT ![p].pc = "open_payload",
                            ![p].safe_title = SafeTitle(prod[p].title),
                            ![p].job_path = JobPath(prod[p]),
                            ![p].mkdir = "spool" \notin prod[p].faults]
    /\ payload' = [payload EXCEPT ![p] = FoundAt(p, JobPath(prod[p]))]
    /\ UNCHANGED <<pfile, unixPath, tcpPort, socks, cons, threads, emitted, hist>>

\* Mutant of PayloadOpened: the GUI is notified while the file is being written.
PayloadOpenedNotifies(r) == [r EXCEPT !.pc = "notify_unix"]

\* The payload file is open for writing: the copy loop comes next.
PayloadOpened(r) == [r EXCEPT !.pc = "copy"]

\* shutil.copy / open(job_path, "wb"): the payload file comes into being.
P_OpenPayload(p) ==
    /\ prod[p].pc = "open_payload"
    /\ \E ok \in BOOLEAN :
         IF ok
         THEN /\ payload' = Filed(p, "partial")
              /\ prod' = [prod EXCEPT ![p] = PayloadOpened(@)]
         ELSE /\ prod' = [prod EXCEPT ![p] = PayloadFailed(@)]
              /\ UNCHANGED payload
    /\ UNCHANGED <<pfile, unixPath, tcpPort, socks, cons, threads, emitted, hist>>

\* The chunks are written and the file is closed; only then does control
\* reach the metadata (job_info) and notify_gui.
PayloadWritten(r) == [r EXCEPT !.pc = "notify_unix", !.wire = Wire(r)]

\* Mutant of Chunks: the last chunk is written only when it is a full one.
RECURSIVE ChunksFullOnly(_)
ChunksFullOnly(stream) ==
    IF Len(stream) < ChunkSize THEN <<>>
    ELSE <<Take(stream, ChunkSize)>> \o ChunksFullOnly(SubSeq(stream, ChunkSize + 1, Len(stream)))

\* The copy loop: stdin.buffer.read(ChunkSize) gives ChunkSize bytes, or what
\* is left at the end of the stream; the loop ends at the first empty chunk.
\* The source reads 65536 at a time; the model's streams are a few bytes long
\* and its chunk is sized to them.
RECURSIVE Chunks(_)
Chunks(stream) ==
    IF stream = <<>> THEN <<>>
    ELSE <<Take(stream, ChunkSize)>> \o Chunks(SubSeq(stream, ChunkSize + 1, Len(stream)))

\* The file after the first k chunks were written.
WrittenAfter(stream, k) == Flatten(SubSeq(Chunks(stream), 1, k))

P_CopyPayload(p) ==
    /\ prod[p].pc = "copy"
    /\ \E ok \in BOOLEAN :
         IF ok
         THEN /\ payload' = Filed(p, "complete")
              /\ prod' = [prod EXCEPT ![p] =
                            PayloadWritten([prod[p] EXCEPT !.written =
                                WrittenAfter(prod[p].stream, Len(Chunks(prod[p].stream)))])]
         ELSE /\ \E k \in 0..Len(Chunks(prod[p].stream)) :
                   prod' = [prod EXCEPT ![p] =
                              PayloadFailed([prod[p] EXCEPT !.written =
                                                WrittenAfter(prod[p].stream, k)])]
              /\ UNCHANGED payload
    /\ UNCHANGED <<pfile, unixPath, tcpPort, socks, cons, threads, emitted, hist>>

\* connect() + sendall(json + "\n") on a listening socket: the message waits
\* in the socket's accept queue.
Listening(s) == s # NoSock /\ socks[s].state = "listening"
Send(s, m) == [socks EXCEPT ![s].queue = Append(@, m)]

\* What notify_gui did with a transport: "skipped" (the path does not
\* exist), "refused" (connect raised OSError, caught) or "sent".
Tried(r, tr, outcome) == [r EXCEPT !.via = Append(@, <<tr, outcome>>)]

\* Mutant of Delivered: after the sendall the second transport is tried too.
DeliveredGoesOn(r) == [r EXCEPT !.notified = TRUE, !.pc = "notify_tcp"]

\* sendall returned: return True; process_job logs and returns 0.
Delivered(r) == Return([r EXCEPT !.notified = TRUE], 0)

\* notify_gui, first transport: only if SOCKET_PATH exists.
P_NotifyUnix(p) ==
    /\ prod[p].pc = "notify_unix"
    /\ hist' = [hist EXCEPT !.tried = @ \cup {p}]
    /\ IF Listening(unixPath)
       THEN /\ socks' = Send(unixPath, p)
            /\ prod' = [prod EXCEPT ![p] = Delivered(Tried(@, "unix", "sent"))]
       ELSE /\ prod' = [prod EXCEPT ![p] =
                          [Tried(@, "unix", IF unixPath = NoSock THEN "skipped"
                                                                ELSE "refused")
                             EXCEPT !.pc = "notify_tcp"]]
            /\ UNCHANGED socks
    /\ UNCHANGED <<pfile, payload, unixPath, tcpPort, cons, threads, emitted>>

\* notify_gui, second transport; False sends process_job to start_gui_with_job.
P_NotifyTcp(p) ==
    /\ prod[p].pc = "notify_tcp"
    /\ IF Listening(tcpPort)
       THEN /\ socks' = Send(tcpPort, p)
            /\ prod' = [prod EXCEPT ![p] = Delivered(Tried(@, "tcp", "sent"))]
       ELSE /\ prod' = [prod EXCEPT ![p] =
                          [Tried(@, "tcp", "refused") EXCEPT !.pc = "fb_exists"]]
            /\ UNCHANGED socks
    /\ UNCHANGED <<pfile, payload, unixPath, tcpPort, cons, threads, emitted, hist>>

\* start_gui_with_job: pending_jobs = []; if pending_file.exists(): ...
P_FbExists(p) ==
    /\ prod[p].pc = "fb_exists"
    /\ IF pfile.kind # "absent"
       THEN prod' = [prod EXCEPT ![p].pc = "fb_read"]
       ELSE prod' = [prod EXCEPT ![p].pc = "fb_open", ![p].pending_jobs = <<p>>]
    /\ UNCHANGED <<pfile, payload, unixPath, tcpPort, socks, cons, threads, emitted, hist>>

\* What json.load gave the backend: the list, or [] after a caught exception.
Seen(f) == IF Parses(f) THEN f.jobs ELSE <<>>

\* What the backend holds after json.load and pending_jobs.append(job_info).
Appended(f, p) == IF Parses(f) THEN f.jobs \o <<p>> ELSE <<p>>

\* with open(pending_file) as f: pending_jobs = json.load(f); the two named
\* exceptions give []; then pending_jobs.append(job_info), which raises
\* AttributeError when the document is not a list.
P_FbRead(p) ==
    /\ prod[p].pc = "fb_read"
    /\ IF Parses(pfile) /\ ~IsList(pfile)
       THEN prod' = [prod EXCEPT ![p] = Raise(@)]
       ELSE prod' = [prod EXCEPT ![p].pc = "fb_open", ![p].seen = Seen(pfile),
                                 ![p].pending_jobs = Appended(pfile, p)]
    /\ hist' = [hist EXCEPT !.badRead = @ \/ pfile.kind \in {"empty", "garbage"}]
    /\ UNCHANGED <<pfile, payload, unixPath, tcpPort, socks, cons, threads, emitted>>

\* open(pending_file, "w") is outside any try: an OSError ends the backend.
OpenFailed(r) == Raise(r)

P_FbOpen(p) ==
    /\ prod[p].pc = "fb_open"
    /\ \E ok \in BOOLEAN :
         IF ok
         THEN /\ pfile' = Truncate(pfile)
              /\ prod' = [prod EXCEPT ![p].pc = "fb_dump", ![p].fd = TRUE]
         ELSE /\ prod' = [prod EXCEPT ![p] = OpenFailed(@)]
              /\ UNCHANGED pfile
    /\ UNCHANGED <<payload, unixPath, tcpPort, socks, cons, threads, emitted, hist>>

\* json.dump(pending_jobs, f) and the close of the with block.
P_FbDump(p) ==
    /\ prod[p].pc = "fb_dump"
    /\ pfile' = IF prod[p].fd THEN Overlay(pfile, prod[p].pending_jobs) ELSE pfile
    /\ prod' = [prod EXCEPT ![p].pc = "fb_launch", ![p].fd = FALSE]
    /\ hist' = [hist EXCEPT !.wrote = @ \cup {p}]
    /\ UNCHANGED <<payload, unixPath, tcpPort, socks, cons, threads, emitted>>

\* The launch block: getpwnam raises KeyError for an unknown user, Popen
\* raises OSError for a command that cannot be run; both are caught and
\* logged.
Launched(F) == IF "user" \in F \/ "launch" \in F THEN "failed" ELSE "started"

\* chown, then Popen of "su" / "sudo": every failure is caught and logged;
\* process_job logs and returns 0.
P_FbLaunch(p) ==
    /\ prod[p].pc = "fb_launch"
    /\ prod' = [prod EXCEPT ![p] = Return([prod[p] EXCEPT !.gui = Launched(prod[p].faults)], 0)]
    /\ hist' = [hist EXCEPT !.launches = @ \cup {p}]
    /\ UNCHANGED <<pfile, payload, unixPath, tcpPort, socks, cons, threads, emitted>>

\* cups_backend_standalone.py main, up to the name of the job file.
S_Prepare(p) ==
    /\ prod[p].pc = "standalone"
    /\ prod' = [prod EXCEPT ![p].pc = "standalone_copy",
                            ![p].safe_title = SafeTitleStandalone(prod[p].title)]
    /\ UNCHANGED <<pfile, payload, unixPath, tcpPort, socks, cons, threads, emitted, hist>>

ProducerStep(p) ==
    \/ P_OpenPayload(p)
    \/ P_CopyPayload(p)
    \/ P_NotifyUnix(p)
    \/ P_NotifyTcp(p)
    \/ P_FbExists(p)
    \/ P_FbRead(p)
    \/ P_FbOpen(p)
    \/ P_FbDump(p)
    \/ P_FbLaunch(p)

\* ============================================================== Consumer
\* print_handler.py: PrintJobHandler.  The main thread runs start, stop,
\* mark_job_processed and the slots connected to job_received.

\* Mutant of PrintJob: a job is born processed.
PrintJobBornProcessed(j, ms) == [job |-> j, processed |-> TRUE, rec |-> FromDict(ms)]

\* A PrintJob the Consumer holds: the job it stands for, the flag, and the
\* fields from_dict took from the parsed object.  The record of an earlier
\* run has fields this model does not follow.
PrintJob(j, ms) == [job |-> j, processed |-> FALSE, rec |-> FromDict(ms)]
\* From the pending file: json.load gives the object json.dump wrote.
Job(j) == PrintJob(j, IF j \in Producers
                      THEN Loads(DumpsObject(JobInfo(prod[j]))).val ELSE <<>>)
JobsOf(s) == [i \in 1..Len(s) |-> s[i].job]
Live(c) == cons[c].mpc # "dead"
ThreadsOf(c) == {t \in ThreadIds : t[1] = c}
UnixThreadsOf(c) == {t \in ThreadsOf(c) : t[3] = "unix"}

\* Mutant of Emit: every event is logged as one of the pending list.
EmitAsPending(c, j, src) ==
    [emitted EXCEPT ![c] = Append(@, [job |-> j, src |-> "pending", gen |-> cons[c].starts,
                                      pos |-> cons[c].idx,
                                      ui |-> "queued", ord |-> 0, marks |-> 0,
                                      fate |-> "none"])]

\* job_received.emit(job); the event is logged with its origin and with the
\* number of the start() call it falls under.  When MainWindow's slot is
\* connected, the event also carries where the slot's call for it stands
\* (ui), the depth of its dialog among the open ones (ord), the number of
\* mark_job_processed calls it made (marks) and what it did with the payload
\* file (fate).
Emit(c, j, src) ==
    [emitted EXCEPT ![c] = Append(@, [job |-> j, src |-> src, gen |-> cons[c].starts,
                                      pos |-> IF src = "pending" THEN cons[c].idx ELSE 0,
                                      ui |-> "queued", ord |-> 0, marks |-> 0,
                                      fate |-> "none"])]

\* The slot's calls that have returned, or ended with an exception.
Returned(e) == e.ui \in {"done", "aborted"}
\* emit() from the main thread calls the slot directly: the load loop goes on
\* when the slot has returned.
SlotReturned(c) ==
    cons[c].slot => \A n \in 1..Len(emitted[c]) :
                       emitted[c][n].src = "pending" => Returned(emitted[c][n])
Raised(j) == [hist EXCEPT !.raised = @ \cup {j}]

\* The process is started: Settings.load() in main(), then MainWindow and
\* PrintJobHandler.__init__.
C_Launch(c) ==
    /\ cons[c].mpc = "dead"
    /\ cons[c].starts < MaxStarts
    /\ cons' = [cons EXCEPT ![c] = [DeadConsumer EXCEPT !.mpc = "idle", !.ret = "idle",
                                       !.starts = cons[c].starts,
                                       !.crashes = cons[c].crashes,
                                       !.slot = cons[c].slot,
                                       !.config = cons[c].config,
                                       !.settings = LoadSettings(cons[c].config),
                                       !.adds = cons[c].adds]]
    /\ emitted' = [emitted EXCEPT ![c] = <<>>]
    /\ UNCHANGED <<pfile, payload, prod, unixPath, tcpPort, socks, threads, hist>>

\* start(): returns at once when _running (no step); else sets it and loads.
C_Start(c) ==
    /\ cons[c].mpc = "idle"
    /\ ~cons[c].running
    /\ cons[c].starts < MaxStarts
    /\ cons' = [cons EXCEPT ![c].running = TRUE, ![c].starts = @ + 1,
                            ![c].mpc = "load_exists"]
    /\ UNCHANGED <<pfile, payload, prod, unixPath, tcpPort, socks, threads, emitted, hist>>

\* _load_pending_jobs: if not pending_file.exists(): return
C_LoadExists(c) ==
    /\ cons[c].mpc = "load_exists"
    /\ cons' = [cons EXCEPT ![c].mpc = IF pfile.kind = "absent" THEN "spawn"
                                       ELSE "load_read"]
    /\ UNCHANGED <<pfile, payload, prod, unixPath, tcpPort, socks, threads, emitted, hist>>

\* with open(pending_file) as f: jobs_data = json.load(f); JSONDecodeError
\* and OSError are caught and end the load without the unlink.  A document
\* that is no list makes the for loop raise an exception that nothing in
\* start() catches: start() is left before the listeners are created.
C_LoadRead(c) ==
    /\ cons[c].mpc = "load_read"
    /\ IF IsList(pfile)
       THEN cons' = [cons EXCEPT ![c].mpc = "load_loop", ![c].jobs_data = pfile.jobs,
                                 ![c].idx = 1, ![c].inEmit = FALSE]
       ELSE IF Parses(pfile)
       THEN cons' = [cons EXCEPT ![c].mpc = "idle", ![c].exc = TRUE]
       ELSE cons' = [cons EXCEPT ![c].mpc = "spawn"]
    /\ hist' = [hist EXCEPT !.badRead = @ \/ pfile.kind \in {"empty", "garbage"}]
    /\ UNCHANGED <<pfile, payload, prod, unixPath, tcpPort, socks, threads, emitted>>

\* Mutant of C_LoadLoop: the record is raised without looking for its payload
\* file.
C_LoadLoopRaisesAll(c) ==
    /\ cons[c].mpc = "load_loop"
    /\ SlotReturned(c)
    /\ cons[c].idx <= Len(cons[c].jobs_data)
    /\ cons' = [cons EXCEPT ![c].pending_jobs = Append(@, Job(cons[c].jobs_data[cons[c].idx])),
                            ![c].idx = @ + 1, ![c].inEmit = TRUE]
    /\ emitted' = Emit(c, cons[c].jobs_data[cons[c].idx], "pending")
    /\ hist' = Raised(cons[c].jobs_data[cons[c].idx])
    /\ UNCHANGED <<pfile, payload, prod, unixPath, tcpPort, socks, threads>>

\* One turn of `for data in jobs_data`: a record whose payload file exists is
\* appended to _pending_jobs and emitted; the connected slot runs inside emit.
\* An element that is no object makes from_dict raise AttributeError, which
\* nothing in start() catches.
C_LoadLoop(c) ==
    /\ cons[c].mpc = "load_loop"
    /\ SlotReturned(c)
    /\ cons[c].idx <= Len(cons[c].jobs_data)
    /\ LET j == cons[c].jobs_data[cons[c].idx] IN
         IF j = BadRecord
         THEN /\ cons' = [cons EXCEPT ![c].mpc = "idle", ![c].exc = TRUE,
                                      ![c].jobs_data = <<>>, ![c].idx = 0,
                                      ![c].inEmit = FALSE]
              /\ UNCHANGED <<emitted, hist>>
         ELSE IF payload[j] # "absent"
         THEN /\ cons' = [cons EXCEPT ![c].pending_jobs = Append(@, Job(j)),
                                      ![c].idx = @ + 1, ![c].inEmit = TRUE]
              /\ emitted' = Emit(c, j, "pending")
              /\ hist' = Raised(j)
         ELSE /\ cons' = [cons EXCEPT ![c].idx = @ + 1, ![c].inEmit = FALSE]
              /\ UNCHANGED <<emitted, hist>>
    /\ UNCHANGED <<pfile, payload, prod, unixPath, tcpPort, socks, threads>>

\* Mutant of C_LoadUnlink: the file is left in place after the loop.
C_LoadKeepsFile(c) ==
    /\ cons[c].mpc = "load_loop"
    /\ SlotReturned(c)
    /\ cons[c].idx > Len(cons[c].jobs_data)
    /\ cons' = [cons EXCEPT ![c].mpc = "spawn", ![c].jobs_data = <<>>,
                            ![c].idx = 0, ![c].inEmit = FALSE]
    /\ UNCHANGED <<pfile, payload, prod, unixPath, tcpPort, socks, threads, emitted, hist>>

\* After the loop: pending_file.unlink(); FileNotFoundError is an OSError and
\* is caught.
C_LoadUnlink(c) ==
    /\ cons[c].mpc = "load_loop"
    /\ SlotReturned(c)
    /\ cons[c].idx > Len(cons[c].jobs_data)
    /\ pfile' = Absent
    /\ prod' = DetachProd
    /\ cons' = [DetachCons EXCEPT ![c].mpc = "spawn", ![c].jobs_data = <<>>,
                                  ![c].idx = 0, ![c].inEmit = FALSE]
    /\ UNCHANGED <<payload, unixPath, tcpPort, socks, threads, emitted, hist>>

\* start() goes on: the two listener threads are created and started.
C_Spawn(c) ==
    /\ cons[c].mpc = "spawn"
    /\ cons' = [cons EXCEPT ![c].mpc = "idle"]
    /\ threads' = [t \in ThreadIds |->
                     IF t[1] = c /\ t[2] = cons[c].starts
                     THEN [pc |-> IF t[3] = "unix" THEN "unlink" ELSE "bind", msg |-> 0]
                     ELSE threads[t]]
    /\ UNCHANGED <<pfile, payload, prod, unixPath, tcpPort, socks, emitted, hist>>

\* socket.close() of a listening socket: queued connections are reset; a TCP
\* port is free again, the unix socket file stays.
Close(sk, S) == [t \in ThreadIds |->
                   IF t \in S /\ sk[t].state # "none" THEN [state |-> "closed", queue |-> <<>>]
                   ELSE sk[t]]

\* stop(): clears _running, closes the two sockets the handler holds, removes
\* the socket file.
C_Stop(c) ==
    /\ cons[c].mpc = "idle"
    /\ cons[c].running
    /\ cons' = [cons EXCEPT ![c].running = FALSE]
    /\ socks' = Close(socks, {cons[c].unix_socket, cons[c].tcp_socket})
    /\ tcpPort' = IF tcpPort = cons[c].tcp_socket THEN NoSock ELSE tcpPort
    /\ unixPath' = NoSock
    /\ UNCHANGED <<pfile, payload, prod, threads, emitted, hist>>

\* The main thread is where a slot, or the event loop, can call
\* mark_job_processed: idle, or inside the emit of the load loop.
InHandler(c) ==
    \/ cons[c].mpc = "idle"
    \/ cons[c].mpc = "load_loop" /\ cons[c].inEmit

\* unprocessed = [j for j in self._pending_jobs if not j.processed]
Unprocessed(s) == SelectSeq(s, LAMBDA r : ~r.processed)

\* mark_job_processed(job): job.processed = True, then _save_pending_jobs.
C_Ack(c, i) ==
    /\ InHandler(c)
    /\ i \in 1..Len(cons[c].pending_jobs)
    /\ ~cons[c].pending_jobs[i].processed
    /\ cons' = [cons EXCEPT ![c].pending_jobs[i].processed = TRUE,
                            ![c].ret = cons[c].mpc, ![c].mpc = "save"]
    /\ hist' = [hist EXCEPT !.acked = @ \cup {cons[c].pending_jobs[i].job}]
    /\ UNCHANGED <<pfile, payload, prod, unixPath, tcpPort, socks, threads, emitted>>

\* The jobs a listener of Consumer c has raised.
LiveRaised(c) == {emitted[c][n].job : n \in {k \in 1..Len(emitted[c]) : emitted[c][k].src = "live"}}

\* _save_pending_jobs: nothing unprocessed: unlink the file if it exists.
\* Otherwise the unprocessed jobs are the data to write, the ones that came
\* over a socket among them.
C_Save(c) ==
    /\ cons[c].mpc = "save"
    /\ LET u == JobsOf(Unprocessed(cons[c].pending_jobs)) IN
         IF u = <<>>
         THEN /\ pfile' = Absent
              /\ prod' = DetachProd
              /\ cons' = [DetachCons EXCEPT ![c].mpc = cons[c].ret]
              /\ UNCHANGED hist
         ELSE /\ cons' = [cons EXCEPT ![c].mpc = "save_open", ![c].data = u]
              /\ hist' = [hist EXCEPT !.resaved = @ \cup (Range(u) \cap LiveRaised(c))]
              /\ UNCHANGED <<pfile, prod>>
    /\ UNCHANGED <<payload, unixPath, tcpPort, socks, threads, emitted>>

\* open(pending_file, "w"); an OSError is caught and printed.
C_SaveOpen(c) ==
    /\ cons[c].mpc = "save_open"
    /\ \E ok \in BOOLEAN :
         IF ok
         THEN /\ pfile' = Truncate(pfile)
              /\ cons' = [cons EXCEPT ![c].mpc = "save_dump", ![c].fd = TRUE]
         ELSE /\ cons' = [cons EXCEPT ![c].mpc = cons[c].ret, ![c].data = <<>>]
              /\ UNCHANGED pfile
    /\ UNCHANGED <<payload, prod, unixPath, tcpPort, socks, threads, emitted, hist>>

\* json.dump(data, f) and the close.
C_SaveDump(c) ==
    /\ cons[c].mpc = "save_dump"
    /\ pfile' = IF cons[c].fd THEN Overlay(pfile, cons[c].data) ELSE pfile
    /\ cons' = [cons EXCEPT ![c].mpc = cons[c].ret, ![c].data = <<>>, ![c].fd = FALSE]
    /\ UNCHANGED <<payload, prod, unixPath, tcpPort, socks, threads, emitted, hist>>

\* The process ends without stop() (kill, crash, logout): its memory and
\* threads are gone, the kernel closes its sockets, the files stay.
C_Crash(c) ==
    /\ Live(c)
    /\ cons[c].crashes < MaxCrashes
    /\ cons' = [cons EXCEPT ![c] = [DeadConsumer EXCEPT !.starts = cons[c].starts,
                                       !.crashes = cons[c].crashes + 1,
                                       !.slot = cons[c].slot,
                                       !.config = cons[c].config,
                                       !.adds = cons[c].adds]]
    /\ threads' = [t \in ThreadIds |-> IF t[1] = c THEN NoThread ELSE threads[t]]
    /\ socks' = Close(socks, ThreadsOf(c))
    /\ tcpPort' = IF tcpPort \in ThreadsOf(c) THEN NoSock ELSE tcpPort
    /\ UNCHANGED <<pfile, payload, prod, unixPath, emitted, hist>>

\* ------------------------------------------------------------ MainWindow
\* main_window.py: _on_print_job, the slot connected to job_received.  It
\* runs in the main thread: called by emit() inside the load loop, or by the
\* event loop for an event a listener thread queued.  Its dialogs run an
\* event loop of their own, in which further queued events are dispatched; a
\* dialog returns when the ones opened after it have returned.
InDialog(e) == e.ui \in {"dialog", "ask", "error"}
Depth(c) == Cardinality({n \in 1..Len(emitted[c]) : InDialog(emitted[c][n])})
OnTop(c, n) == InDialog(emitted[c][n]) /\ emitted[c][n].ord = Depth(c)

\* The main thread is in an event loop or at the slot's direct call.
Dispatching(c, n) ==
    IF emitted[c][n].src = "pending"
    THEN cons[c].mpc = "load_loop" /\ cons[c].inEmit
    ELSE \/ cons[c].mpc = "idle"
         \/ cons[c].mpc = "load_loop" /\ Depth(c) > 0
\* The main thread is back in the slot's call for event n.
Resumed(c, n) == cons[c].mpc \in {"idle", "load_loop"} /\ OnTop(c, n)

\* self.print_handler.mark_job_processed(job) as the slot's last statement:
\* the flag, then _save_pending_jobs, then the slot returns.
Marked(c, n, fate) ==
    /\ emitted' = [emitted EXCEPT ![c][n].ui = "done", ![c][n].fate = fate,
                                  ![c][n].marks = @ + 1]
    /\ cons' = [cons EXCEPT ![c].pending_jobs[n].processed = TRUE,
                            ![c].ret = cons[c].mpc, ![c].mpc = "save"]
    /\ hist' = [hist EXCEPT !.acked = @ \cup {emitted[c][n].job}]

\* The slot is called: if the payload file is gone the job is marked at
\* once; otherwise the Save As dialog opens.
W_Begin(c, n) ==
    /\ cons[c].slot
    /\ n \in 1..Len(emitted[c])
    /\ emitted[c][n].ui = "queued"
    /\ Dispatching(c, n)
    /\ IF payload[emitted[c][n].job] = "absent"
       THEN Marked(c, n, "missing")
       ELSE /\ emitted' = [emitted EXCEPT ![c][n].ui = "dialog", ![c][n].ord = Depth(c) + 1]
            /\ UNCHANGED <<cons, hist>>
    /\ UNCHANGED <<pfile, payload, prod, unixPath, tcpPort, socks, threads>>

\* The directories a file dialog can come back with.
SaveDirs == {<<"/", "a">>, <<"/", "a", "/", ".", ".", "/", "b">>}

\* settings.add_recent_directory(directory) as the handlers call it; the
\* call is counted and its argument kept.
Added(r, directory) ==
    [r EXCEPT !.settings = AddRecentDirectory(r.settings, directory),
              !.adds = @ + 1, !.added = directory]
\* settings.save()
SettingsSaved(r) == [r EXCEPT !.config = Saved(r.settings)]

\* The user chose a path.  shutil.copy, add_recent_directory, settings.save,
\* unlink of the payload file: all done ("saved"), or an exception at the
\* copy ("failed") or behind it ("copied": at the save, or at the unlink),
\* which opens the error box.
W_Save(c, n) ==
    /\ Resumed(c, n)
    /\ emitted[c][n].ui = "dialog"
    /\ \E outcome \in {"saved", "copied", "failed"}, d \in SaveDirs, written \in BOOLEAN :
         IF outcome = "failed" \/ payload[emitted[c][n].job] = "absent"
         THEN /\ emitted' = [emitted EXCEPT ![c][n].ui = "error", ![c][n].fate = "failed"]
              /\ UNCHANGED <<payload, cons, hist>>
         ELSE IF outcome = "copied"
         THEN /\ emitted' = [emitted EXCEPT ![c][n].ui = "error", ![c][n].fate = "copied"]
              /\ cons' = [cons EXCEPT ![c] = IF written THEN SettingsSaved(Added(@, d))
                                             ELSE Added(@, d)]
              /\ UNCHANGED <<payload, hist>>
         ELSE /\ payload' = Unlinked(emitted[c][n].job)
              /\ emitted' = [emitted EXCEPT ![c][n].ui = "done", ![c][n].fate = "saved",
                                            ![c][n].marks = @ + 1]
              /\ cons' = [cons EXCEPT ![c] = [SettingsSaved(Added(@, d)) EXCEPT
                                                 !.pending_jobs[n].processed = TRUE,
                                                 !.ret = cons[c].mpc, !.mpc = "save"]]
              /\ hist' = [hist EXCEPT !.acked = @ \cup {emitted[c][n].job}]
    /\ UNCHANGED <<pfile, prod, unixPath, tcpPort, socks, threads>>

\* The error box is closed.
W_ErrorClosed(c, n) ==
    /\ Resumed(c, n)
    /\ emitted[c][n].ui = "error"
    /\ Marked(c, n, emitted[c][n].fate)
    /\ UNCHANGED <<pfile, payload, prod, unixPath, tcpPort, socks, threads>>

\* The user cancelled the Save As dialog: the question box opens.
W_Cancel(c, n) ==
    /\ Resumed(c, n)
    /\ emitted[c][n].ui = "dialog"
    /\ emitted' = [emitted EXCEPT ![c][n].ui = "ask"]
    /\ UNCHANGED <<pfile, payload, prod, unixPath, tcpPort, socks, cons, threads, hist>>

\* Yes: the document goes to the combiner (add_pdf catches what may fail).
W_Keep(c, n) ==
    /\ Resumed(c, n)
    /\ emitted[c][n].ui = "ask"
    /\ Marked(c, n, "kept")
    /\ UNCHANGED <<pfile, payload, prod, unixPath, tcpPort, socks, threads>>

\* No: job.file_path.unlink(missing_ok=True), outside any try: an OSError
\* other than the missing file (a directory the user may not write to) ends
\* the slot there.
W_Discard(c, n) ==
    /\ Resumed(c, n)
    /\ emitted[c][n].ui = "ask"
    /\ \E ok \in BOOLEAN :
         IF ok
         THEN /\ payload' = Unlinked(emitted[c][n].job)
              /\ Marked(c, n, "discarded")
         ELSE /\ emitted' = [emitted EXCEPT ![c][n].ui = "aborted",
                                            ![c][n].fate = "undeletable"]
              /\ UNCHANGED <<payload, cons, hist>>
    /\ UNCHANGED <<pfile, prod, unixPath, tcpPort, socks, threads>>

WindowStep(c) ==
    \E n \in 1..Len(emitted[c]) :
        \/ W_Begin(c, n)
        \/ W_Save(c, n)
        \/ W_ErrorClosed(c, n)
        \/ W_Cancel(c, n)
        \/ W_Keep(c, n)
        \/ W_Discard(c, n)

\* ------------------------------------------------------ listener threads
\* _unix_listener: if os.path.exists(UNIX_SOCKET_PATH): os.unlink(...)
T_Unlink(t) ==
    /\ threads[t].pc = "unlink"
    /\ unixPath' = NoSock
    /\ threads' = [threads EXCEPT ![t].pc = "bind"]
    /\ UNCHANGED <<pfile, payload, prod, tcpPort, socks, cons, emitted, hist>>

\* self._unix_socket = socket(...); bind; listen; chmod.  A bind on a path or
\* port that is taken raises; the outer except prints and the thread ends.
T_Bind(t) ==
    /\ threads[t].pc = "bind"
    /\ IF t[3] = "unix"
       THEN /\ cons' = [cons EXCEPT ![t[1]].unix_socket = t]
            /\ IF unixPath = NoSock
               THEN /\ unixPath' = t
                    /\ socks' = [socks EXCEPT ![t] = [state |-> "listening", queue |-> <<>>]]
                    /\ threads' = [threads EXCEPT ![t].pc = "loop"]
               ELSE /\ socks' = [socks EXCEPT ![t] = [state |-> "open", queue |-> <<>>]]
                    /\ threads' = [threads EXCEPT ![t].pc = "done"]
                    /\ UNCHANGED unixPath
            /\ UNCHANGED tcpPort
       ELSE /\ cons' = [cons EXCEPT ![t[1]].tcp_socket = t]
            /\ IF tcpPort = NoSock
               THEN /\ tcpPort' = t
                    /\ socks' = [socks EXCEPT ![t] = [state |-> "listening", queue |-> <<>>]]
                    /\ threads' = [threads EXCEPT ![t].pc = "loop"]
               ELSE /\ socks' = [socks EXCEPT ![t] = [state |-> "open", queue |-> <<>>]]
                    /\ threads' = [threads EXCEPT ![t].pc = "done"]
                    /\ UNCHANGED tcpPort
            /\ UNCHANGED unixPath
    /\ UNCHANGED <<pfile, payload, prod, emitted, hist>>

\* The socket the loop of thread t accepts on: the handler's field, as it is
\* now.
SockOf(t) == IF t[3] = "unix" THEN cons[t[1]].unix_socket ELSE cons[t[1]].tcp_socket

\* while self._running: settimeout; accept.  A timeout goes round again; any
\* other exception breaks the loop.
T_Accept(t) ==
    /\ threads[t].pc = "loop"
    /\ IF ~cons[t[1]].running \/ ~Listening(SockOf(t))
       THEN /\ threads' = [threads EXCEPT ![t].pc = "done"]
            /\ UNCHANGED socks
       ELSE /\ socks[SockOf(t)].queue # <<>>
            /\ threads' = [threads EXCEPT ![t] = [pc |-> "conn",
                                                  msg |-> Head(socks[SockOf(t)].queue)]]
            /\ socks' = [socks EXCEPT ![SockOf(t)].queue = Tail(@)]
    /\ UNCHANGED <<pfile, payload, prod, unixPath, tcpPort, cons, emitted, hist>>

\* Mutant of Rejected: the exception leaves _handle_connection and breaks the
\* accept loop.
RejectedBreaksLoop(th) == [pc |-> "done", msg |-> 0]

\* _handle_connection on bytes that are no job record: "if data" is false, or
\* json.loads / from_dict raise and "except Exception" prints; finally
\* conn.close(), and the accept loop goes round.
Rejected(th) == [pc |-> "loop", msg |-> 0]

\* _handle_connection: read up to the newline or the end of the stream (a
\* blocking recv: a sender that does neither keeps the thread here),
\* json.loads, from_dict, append to _pending_jobs, emit; close the connection.
T_Handle(t) ==
    /\ threads[t].pc = "conn"
    /\ threads[t].msg # Hung
    /\ IF threads[t].msg \in Malformed
       THEN /\ threads' = [threads EXCEPT ![t] = Rejected(@)]
            /\ hist' = [hist EXCEPT !.dropped = @ \cup {t}]
            /\ UNCHANGED <<cons, emitted>>
       ELSE \E data \in Receptions(prod[threads[t].msg].wire) :
              LET job_data == Loads(Strip(data)) IN
              IF job_data.ok
              THEN /\ cons' = [cons EXCEPT ![t[1]].pending_jobs =
                                  Append(@, PrintJob(threads[t].msg, job_data.val))]
                   /\ emitted' = Emit(t[1], threads[t].msg, "live")
                   /\ hist' = [Raised(threads[t].msg) EXCEPT
                                 !.afterDrop = IF t \in hist.dropped
                                               THEN @ \cup {threads[t].msg} ELSE @]
                   /\ threads' = [threads EXCEPT ![t] = [pc |-> "loop", msg |-> 0]]
              ELSE /\ threads' = [threads EXCEPT ![t] = Rejected(@)]
                   /\ hist' = [hist EXCEPT !.dropped = @ \cup {t}]
                   /\ UNCHANGED <<cons, emitted>>
    /\ UNCHANGED <<pfile, payload, prod, unixPath, tcpPort, socks>>

\* --------------------------------------------------------- other senders
\* Any local process can connect to the socket file (mode 0666) or to the
\* loopback port.
Endpoint(tr) == IF tr = "unix" THEN unixPath ELSE tcpPort

\* A process connects, sends bytes that are no job record, and closes.
X_Send(tr, b) ==
    /\ hist.foreign < MaxForeign
    /\ Listening(Endpoint(tr))
    /\ socks' = Send(Endpoint(tr), b)
    /\ hist' = [hist EXCEPT !.foreign = @ + 1]
    /\ UNCHANGED <<pfile, payload, prod, unixPath, tcpPort, cons, threads, emitted>>

\* A process connects and neither sends nor closes.
X_Hang(tr) == X_Send(tr, Hung)

\* The silent sender goes away: recv returns b"".
X_Close(t) ==
    /\ threads[t].pc = "conn"
    /\ threads[t].msg = Hung
    /\ threads' = [threads EXCEPT ![t].msg = NoBytes]
    /\ UNCHANGED <<pfile, payload, prod, unixPath, tcpPort, socks, cons, emitted, hist>>

ThreadStep(t) ==
    \/ T_Unlink(t)
    \/ T_Bind(t)
    \/ T_Accept(t)
    \/ T_Handle(t)

ConsumerStep(c) ==
    \/ C_Launch(c)
    \/ C_Start(c)
    \/ C_LoadExists(c)
    \/ C_LoadRead(c)
    \/ C_LoadLoop(c)
    \/ C_LoadUnlink(c)
    \/ C_Spawn(c)
    \/ C_Stop(c)
    \/ \E i \in 1..(MaxOld + NumProducers) : C_Ack(c, i)
    \/ C_Save(c)
    \/ C_SaveOpen(c)
    \/ C_SaveDump(c)
    \/ C_Crash(c)
    \/ \E t \in ThreadsOf(c) : ThreadStep(t)

\* ------------------------------------------------------- specifications
FirstProducer == MaxOld + 1

MainStep(c) ==
    \/ C_Launch(c)
    \/ C_Start(c)
    \/ C_LoadExists(c)
    \/ C_LoadRead(c)
    \/ C_LoadLoop(c)
    \/ C_LoadUnlink(c)
    \/ C_Spawn(c)

AckStep(c) ==
    \/ \E i \in 1..(MaxOld + NumProducers) : C_Ack(c, i)
    \/ C_Save(c)
    \/ C_SaveOpen(c)
    \/ C_SaveDump(c)

\* The whole system: every backend invocation and one Consumer process of the
\* user, which may be started, stopped, restarted and killed.
Next ==
    \/ \E p \in Producers : ProducerStep(p)
    \/ ConsumerStep("c1")

Spec == Init /\ [][Next]_vars

\* The backend invocations alone: no Consumer is running.
NextProducers == \E p \in Producers : ProducerStep(p)

SpecProducers == Init /\ [][NextProducers]_vars

\* The backend invocations from their first line, in an environment where
\* the steps around the spool directory and the launch may fail.
InitBackend ==
    /\ pfile \in InitFile
    /\ payload \in [Jobs -> {"absent", "complete"}]
    /\ \A j \in Producers : payload[j] = "absent"
    /\ \A j \in OldJobs : j \notin Range(pfile.jobs) => payload[j] = "absent"
    /\ \E F \in SUBSET Faults :
         prod = [p \in Producers |->
                   [NewProducer EXCEPT !.pc = "prepare", !.faults = F,
                                       !.job_id = IF p = FirstProducer THEN <<"1">> ELSE <<"2">>]]
    /\ unixPath = NoSock
    /\ tcpPort = NoSock
    /\ socks = [t \in ThreadIds |-> NoSocket]
    /\ cons = [c \in Consumers |-> DeadConsumer]
    /\ threads = [t \in ThreadIds |-> NoThread]
    /\ emitted = [c \in Consumers |-> <<>>]
    /\ hist = [initial |-> pfile.jobs, badRead |-> FALSE, raised |-> {},
               acked |-> {}, tried |-> {}, wrote |-> {}, launches |-> {},
               foreign |-> 0, dropped |-> {}, afterDrop |-> {}, resaved |-> {}]

NextBackend ==
    \/ \E p \in Producers : P_Prepare(p)
    \/ \E p \in Producers : ProducerStep(p)

SpecBackend == InitBackend /\ [][NextBackend]_vars

\* The backend invocations and a Consumer that starts once and listens on
\* both transports.
NextDeliver ==
    \/ \E p \in Producers : ProducerStep(p)
    \/ MainStep("c1")
    \/ \E t \in ThreadsOf("c1") : ThreadStep(t)

\* Every record of the initial pending file has its payload file.
InitDeliver == Init /\ \A j \in Range(pfile.jobs) : payload[j] = "complete"

SpecDeliver == InitDeliver /\ [][NextDeliver]_vars

\* One backend invocation against the main thread of a Consumer that loads
\* and acknowledges; its listeners have not come up.
NextFile ==
    \/ ProducerStep(FirstProducer)
    \/ MainStep("c1")
    \/ AckStep("c1")

SpecFile == Init /\ [][NextFile]_vars

\* A Consumer that loads, acknowledges, is killed and is started again.
NextCrash ==
    \/ MainStep("c1")
    \/ AckStep("c1")
    \/ C_Crash("c1")

SpecCrash == Init /\ [][NextCrash]_vars

\* One Consumer process through start, stop and start again, with its
\* local-domain listener and one backend invocation.
NextRestart ==
    \/ ProducerStep(FirstProducer)
    \/ MainStep("c1")
    \/ AckStep("c1")
    \/ C_Stop("c1")
    \/ \E t \in UnixThreadsOf("c1") : ThreadStep(t)

SpecRestart == Init /\ [][NextRestart]_vars

\* One backend invocation against a Consumer process that may be killed and
\* started again: a killed process leaves its socket file behind.
NextNotify ==
    \/ ProducerStep(FirstProducer)
    \/ MainStep("c1")
    \/ C_Crash("c1")
    \/ \E t \in ThreadsOf("c1") : ThreadStep(t)

SpecNotify == InitDeliver /\ [][NextNotify]_vars

\* One backend invocation and other local processes against the listeners of
\* a Consumer that starts once.
NextSenders ==
    \/ ProducerStep(FirstProducer)
    \/ MainStep("c1")
    \/ \E t \in ThreadsOf("c1") : ThreadStep(t)
    \/ \E tr \in Transports, b \in Malformed : X_Send(tr, b)
    \/ \E tr \in Transports : X_Hang(tr)
    \/ \E t \in ThreadsOf("c1") : X_Close(t)

SpecSenders == InitDeliver /\ [][NextSenders]_vars

\* One Consumer process through start and stop, with both listener threads
\* and one backend invocation.
NextStop ==
    \/ ProducerStep(FirstProducer)
    \/ MainStep("c1")
    \/ C_Stop("c1")
    \/ \E t \in ThreadsOf("c1") : ThreadStep(t)

SpecStop == Init /\ [][NextStop]_vars

\* Two Consumer processes of the same user, each started once (the second one
\* by a backend run that could not notify, or by the user), and one backend
\* invocation.
NextTwo ==
    \/ ProducerStep(FirstProducer)
    \/ \E c \in Consumers : MainStep(c)
    \/ \E t \in ThreadIds : ThreadStep(t)

SpecTwo == Init /\ [][NextTwo]_vars

\* The main thread of one Consumer process through start, stop and start
\* again, with acknowledgements and no backend invocation.
NextReload ==
    \/ MainStep("c1")
    \/ AckStep("c1")
    \/ C_Stop("c1")

SpecReload == Init /\ [][NextReload]_vars

\* One backend invocation and a Consumer that starts once, on a pending file
\* that holds foreign content.
InitForeign ==
    /\ pfile \in ForeignFiles
    /\ payload = [j \in Jobs |-> "absent"]
    /\ prod = [p \in Producers |-> NewProducer]
    /\ unixPath = NoSock
    /\ tcpPort = NoSock
    /\ socks = [t \in ThreadIds |-> NoSocket]
    /\ cons = [c \in Consumers |-> DeadConsumer]
    /\ threads = [t \in ThreadIds |-> NoThread]
    /\ emitted = [c \in Consumers |-> <<>>]
    /\ hist = [initial |-> <<>>, badRead |-> FALSE, raised |-> {},
               acked |-> {}, tried |-> {}, wrote |-> {}, launches |-> {},
               foreign |-> 0, dropped |-> {}, afterDrop |-> {}, resaved |-> {}]

NextForeign ==
    \/ ProducerStep(FirstProducer)
    \/ MainStep("c1")
    \/ \E t \in ThreadsOf("c1") : ThreadStep(t)

SpecForeign == InitForeign /\ [][NextForeign]_vars

\* Nothing but the backend invocation under study: no pending file, no
\* Consumer.
Quiet ==
    /\ pfile = Absent
    /\ payload = [j \in Jobs |-> "absent"]
    /\ unixPath = NoSock
    /\ tcpPort = NoSock
    /\ socks = [t \in ThreadIds |-> NoSocket]
    /\ cons = [c \in Consumers |-> DeadConsumer]
    /\ threads = [t \in ThreadIds |-> NoThread]
    /\ emitted = [c \in Consumers |-> <<>>]
    /\ hist = [initial |-> <<>>, badRead |-> FALSE, raised |-> {},
               acked |-> {}, tried |-> {}, wrote |-> {}, launches |-> {},
               foreign |-> 0, dropped |-> {}, afterDrop |-> {}, resaved |-> {}]

\* The titles a job can come with: every string of up to MaxBody sample
\* characters, alone or behind enough letters to reach the limit of the file
\* name segment, and the title of the specification's example.
SampleChars == {"a", "4", " ", ".", "_", "-", "#", "/", "e_acute"}
Bodies == UNION {[1..n -> SampleChars] : n \in 0..MaxBody}
Pad(k) == [i \in 1..k |-> "a"]
Pads == {0, SegmentLimit - 2, SegmentLimit - 1, SegmentLimit}
ExampleTitle == <<"I", "n", "v", "o", "i", "c", "e", " ", "#", "4", "2", "/", "2", "0", "2", "4">>
Titles == {Pad(k) \o b : k \in Pads, b \in Bodies} \cup {ExampleTitle}

\* One invocation of either backend script with a title, up to the name of
\* its job file.
InitTitles ==
    /\ Quiet
    /\ \E t \in Titles, start \in {"prepare", "standalone"} :
         prod = [p \in Producers |->
                   IF p = FirstProducer
                   THEN [NewProducer EXCEPT !.pc = start, !.title = t]
                   ELSE NewProducer]

NextTitles ==
    \/ P_Prepare(FirstProducer)
    \/ S_Prepare(FirstProducer)

SpecTitles == InitTitles /\ [][NextTitles]_vars

\* One backend invocation with the arguments of a job, from main() to the
\* Consumer's listener on the socket file: the texts of up to MaxText
\* characters, among them the ones JSON escapes, as options.
MaxText == 2
WireChars == {"a", "n", " ", DQ, BS, LF, "e_acute"}
Texts == UNION {[1..n -> WireChars] : n \in 0..MaxText}
WireArgs == {<<<<"4", "2">>, <<"a", "l">>, t, c, o>> :
               t \in {<<>>, ExampleTitle}, c \in {<<"2">>, <<"1", "0">>}, o \in Texts}

\* A backend invocation with arguments from Args and a stream from Strs on
\* stdin, at the first line of main(); no Consumer runs yet.
InitJob(Args, Strs) ==
    /\ pfile \in InitFile
    /\ payload = [j \in Jobs |-> IF j \in Range(pfile.jobs) THEN "complete" ELSE "absent"]
    /\ unixPath = NoSock
    /\ tcpPort = NoSock
    /\ socks = [t \in ThreadIds |-> NoSocket]
    /\ cons = [c \in Consumers |-> DeadConsumer]
    /\ threads = [t \in ThreadIds |-> NoThread]
    /\ emitted = [c \in Consumers |-> <<>>]
    /\ hist = [initial |-> pfile.jobs, badRead |-> FALSE, raised |-> {},
               acked |-> {}, tried |-> {}, wrote |-> {}, launches |-> {},
               foreign |-> 0, dropped |-> {}, afterDrop |-> {}, resaved |-> {}]
    /\ \E a \in Args, b \in Strs :
         prod = [p \in Producers |->
                   IF p = FirstProducer
                   THEN [NewProducer EXCEPT !.pc = "main", !.argv = a, !.stream = b]
                   ELSE NewProducer]

InitWire == InitJob(WireArgs, {<<>>})

NextWire ==
    \/ P_Main(FirstProducer)
    \/ P_Prepare(FirstProducer)
    \/ ProducerStep(FirstProducer)
    \/ MainStep("c1")
    \/ \E t \in UnixThreadsOf("c1") : ThreadStep(t)

SpecWire == InitWire /\ [][NextWire]_vars

\* One backend invocation against a Consumer whose user acknowledges jobs and
\* whose process may be killed and started again.
NextLive ==
    \/ ProducerStep(FirstProducer)
    \/ MainStep("c1")
    \/ AckStep("c1")
    \/ C_Crash("c1")
    \/ \E t \in UnixThreadsOf("c1") : ThreadStep(t)

SpecLive == InitDeliver /\ [][NextLive]_vars

\* One backend invocation against the application: a Consumer whose events
\* go to MainWindow's slot, started once.
InitWindow ==
    /\ pfile \in InitFile
    /\ payload \in [Jobs -> {"absent", "complete"}]
    /\ \A j \in Producers : payload[j] = "absent"
    /\ \A j \in OldJobs : j \notin Range(pfile.jobs) => payload[j] = "absent"
    /\ prod = [p \in Producers |-> NewProducer]
    /\ unixPath = NoSock
    /\ tcpPort = NoSock
    /\ socks = [t \in ThreadIds |-> NoSocket]
    /\ cons = [c \in Consumers |-> [DeadConsumer EXCEPT !.slot = (c = "c1")]]
    /\ threads = [t \in ThreadIds |-> NoThread]
    /\ emitted = [c \in Consumers |-> <<>>]
    /\ hist = [initial |-> pfile.jobs, badRead |-> FALSE, raised |-> {},
               acked |-> {}, tried |-> {}, wrote |-> {}, launches |-> {},
               foreign |-> 0, dropped |-> {}, afterDrop |-> {}, resaved |-> {}]

NextWindow ==
    \/ ProducerStep(FirstProducer)
    \/ MainStep("c1")
    \/ WindowStep("c1")
    \/ C_Save("c1")
    \/ C_SaveOpen("c1")
    \/ C_SaveDump("c1")
    \/ \E t \in UnixThreadsOf("c1") : ThreadStep(t)

SpecWindow == InitWindow /\ [][NextWindow]_vars

\* The application's own use of its settings: exports and the settings
\* dialog, over terminations and restarts, from a settings file that is
\* missing, was saved earlier, or carries a bad enum value.
MaxRecent == 2
MaxAdds == 3
ExportDirs == SaveDirs \cup {<<"/", "a", "/">>, <<"c">>}

\* What the settings dialog and a moved window leave in the settings:
\* get_settings() sets the fields from the widgets, _save_geometry the
\* window's place.
Dialled(s, f, q, flag, m) ==
    [s EXCEPT !.default_format = PyEnum("OutputFormat", f),
              !.image_quality = PyEnum("ImageQuality", q),
              !.printer_name = PyStr(IF flag THEN <<DQ, BS, LF, "e_acute">> ELSE <<"O", "P", "C">>),
              !.filename_template = PyStr(IF flag THEN <<>> ELSE <<"{title}">>),
              !.auto_save = PyBool(flag), !.remember_last_dir = PyBool(flag),
              !.show_preview = PyBool(~flag), !.start_minimized = PyBool(flag),
              !.minimize_to_tray = PyBool(~flag),
              !.window_geometry = IF flag THEN WindowGeometry(0 - 8, 0, 640, 480) ELSE @,
              !.max_recent_dirs = PyInt(m)]
SettingsValues ==
    {Dialled(DefaultSettings, f, q, flag, m) :
        f \in Members("OutputFormat"), q \in Members("ImageQuality"),
        flag \in BOOLEAN, m \in 1..MaxRecent}

\* _on_export with a file written: add_recent_directory, save.
S_Export(c) ==
    /\ cons[c].mpc = "idle"
    /\ cons[c].adds < MaxAdds
    /\ \E d \in ExportDirs : cons' = [cons EXCEPT ![c] = SettingsSaved(Added(@, d))]
    /\ UNCHANGED <<pfile, payload, prod, unixPath, tcpPort, socks, threads, emitted, hist>>

\* A settings file with a value that is no member of the enum, behind and
\* in front of fields that differ from the defaults.
Custom == Dialled(DefaultSettings, "PNG", "LOW", TRUE, 1)
BadEnum(field, x) ==
    [exists |-> TRUE,
     text |-> DumpJ(PyDict([i \in 1..Len(PublicFields) |->
                               IF PublicFields[i] = field THEN <<<<field>>, x>>
                               ELSE SaveData(Custom)[i]]), 0),
     by |-> "other", of |-> <<>>]
ConfigFiles == {NoConfig} \cup {Saved(s) : s \in SettingsValues}
               \cup {BadEnum("default_format", PyStr(<<"b", "m", "p">>)),
                     BadEnum("image_quality", PyStr(<<"H", "I", "G", "H">>)),
                     BadEnum("image_quality", PyInt(300))}

InitSettings ==
    /\ pfile = Absent
    /\ payload = [j \in Jobs |-> "absent"]
    /\ prod = [p \in Producers |-> NewProducer]
    /\ unixPath = NoSock
    /\ tcpPort = NoSock
    /\ socks = [t \in ThreadIds |-> NoSocket]
    /\ \E f \in ConfigFiles :
         cons = [c \in Consumers |-> [DeadConsumer EXCEPT !.config = f]]
    /\ threads = [t \in ThreadIds |-> NoThread]
    /\ emitted = [c \in Consumers |-> <<>>]
    /\ hist = [initial |-> <<>>, badRead |-> FALSE, raised |-> {},
               acked |-> {}, tried |-> {}, wrote |-> {}, launches |-> {},
               foreign |-> 0, dropped |-> {}, afterDrop |-> {}, resaved |-> {}]

NextSettings ==
    \/ C_Launch("c1")
    \/ C_Crash("c1")
    \/ S_Export("c1")

SpecSettings == InitSettings /\ [][NextSettings]_vars

\* One Consumer process through start, stop and start again with its
\* local-domain listener threads and other local processes that connect; the
\* operating system lets every thread that can run do so in the end.
NextHalt ==
    \/ MainStep("c1")
    \/ C_Stop("c1")
    \/ \E t \in UnixThreadsOf("c1") : ThreadStep(t)
    \/ \E b \in Malformed : X_Send("unix", b)
    \/ X_Hang("unix")
    \/ \E t \in UnixThreadsOf("c1") : X_Close(t)

FairHalt ==
    /\ InitDeliver
    /\ [][NextHalt]_vars
    /\ \A t \in UnixThreadsOf("c1") : WF_vars(ThreadStep(t))

\* Two backend invocations for one user, with job ids and titles that have
\* underscores in them, in the same second or in two; the application runs
\* alongside.
Stamps == {<<"20240101_120000">>, <<"20240101_120001">>}
IdTitles == {<<<<"1", "_", "a">>, <<"b">>>>, <<<<"1">>, <<"a", "_", "b">>>>,
             <<<<"2">>, <<"b">>>>}
ArgsOf(it) == <<it[1], <<"a", "l">>, it[2], <<"1">>, <<>>>>

InitCollide ==
    /\ pfile = Absent
    /\ payload = [j \in Jobs |-> "absent"]
    /\ unixPath = NoSock
    /\ tcpPort = NoSock
    /\ socks = [t \in ThreadIds |-> NoSocket]
    /\ cons = [c \in Consumers |-> [DeadConsumer EXCEPT !.slot = (c = "c1")]]
    /\ threads = [t \in ThreadIds |-> NoThread]
    /\ emitted = [c \in Consumers |-> <<>>]
    /\ hist = [initial |-> <<>>, badRead |-> FALSE, raised |-> {},
               acked |-> {}, tried |-> {}, wrote |-> {}, launches |-> {},
               foreign |-> 0, dropped |-> {}, afterDrop |-> {}, resaved |-> {}]
    /\ \E a \in IdTitles, b \in IdTitles, t \in Stamps :
         /\ a[1] # b[1] \/ t # <<"20240101_120000">>
         /\ prod = [p \in Producers |->
                      IF p = FirstProducer
                      THEN [NewProducer EXCEPT !.pc = "main", !.argv = ArgsOf(a),
                                               !.stream = <<"x">>]
                      ELSE [NewProducer EXCEPT !.pc = "main", !.argv = ArgsOf(b),
                                               !.stream = <<"y">>, !.timestamp = t]]

NextCollide ==
    \/ \E p \in Producers : P_Main(p)
    \/ \E p \in Producers : P_Prepare(p)
    \/ \E p \in Producers : ProducerStep(p)
    \/ MainStep("c1")
    \/ WindowStep("c1")
    \/ C_Save("c1")
    \/ C_SaveOpen("c1")
    \/ C_SaveDump("c1")
    \/ \E t \in UnixThreadsOf("c1") : ThreadStep(t)

SpecCollide == InitCollide /\ [][NextCollide]_vars

\* The same, for the payload: every stream of up to MaxStream bytes on stdin.
Bytes == {"x", "y"}
Streams == UNION {[1..n -> Bytes] : n \in 0..MaxStream}
PayloadArgs == <<<<"4", "2">>, <<"a", "l">>, ExampleTitle, <<"1">>, <<>>>>

InitPayload == InitJob({PayloadArgs}, Streams)

SpecPayload == InitPayload /\ [][NextWire]_vars

\* The same, for the argument list: every number of arguments up to MaxArgs,
\* and every kind of text as the copies argument.
MaxArgs == 7
CopiesTexts == {<<"2">>, <<"0">>, <<"-", "2">>, <<"+", "3">>, <<" ", "4">>, <<"1", "_", "0">>,
                <<"a">>, <<"1", ".", "5">>, <<>>, <<"_", "1">>}
ArgLists == {[i \in 1..n |-> <<"1">>] : n \in 0..MaxArgs}
              \cup {[PayloadArgs EXCEPT ![4] = c] : c \in CopiesTexts}

InitArgs == InitJob(ArgLists, {<<"x">>})

SpecArgs == InitArgs /\ [][NextWire]_vars

\* The same, for the names: job ids, user names and titles with slashes and
\* dots in them.
NameChars == {"a", ".", "/"}
Names == UNION {[1..n -> NameChars] : n \in 0..MaxBody}
           \cup {<<"/", ".", ".", "/", ".", ".", "/", "a">>}
NameArgs == {<<j, u, t, <<"1">>, <<>>>> : j \in Names, u \in Names, t \in {<<".", ".", "/", "a">>}}

InitNames == InitJob(NameArgs, {<<"x">>})

NextNames ==
    \/ P_Main(FirstProducer)
    \/ P_Prepare(FirstProducer)
    \/ ProducerStep(FirstProducer)

SpecNames == InitNames /\ [][NextNames]_vars

\* ================================================================ claims
EmittedJobs(c) == {emitted[c][i].job : i \in 1..Len(emitted[c])}
ProducersAtRest == \A p \in Producers : prod[p].pc \in {"open_payload", "done"}
MainAtRest(c) == cons[c].mpc \in {"dead", "idle"}

\* C1: a job that a backend run appended to the pending file after its live
\* notification failed is never silently dropped: once the backend has
\* returned and the Consumer's main thread is at rest, the job is in the
\* pending file or has been raised as a job event.
C1_NoSilentDrop ==
    \A p \in Producers :
        (p \in hist.wrote /\ prod[p].pc = "done" /\ MainAtRest("c1"))
            => (p \in Range(pfile.jobs) \/ p \in hist.raised)

\* C2: when two backend runs for the same user have both written the pending
\* file and returned, with no Consumer reachable, both jobs are in the
\* pending list.
C2_NoLostUpdate ==
    (\A p \in Producers : prod[p].pc = "done" /\ p \in hist.wrote)
        => Producers \subseteq Range(pfile.jobs)

\* C3: every read of the pending file, by a backend run or by a loading
\* Consumer, observes a complete, parseable JSON array, never an empty or
\* partly overwritten file.
C3_ReadsSeeWholeArray == ~hist.badRead

\* C4: a job from the pending list that the Consumer has not acknowledged
\* when its process ends is still in the persisted pending list, and the
\* next Consumer startup raises it again, if its payload file exists.
C4_AbandonedStaysPending ==
    \A j \in Range(hist.initial) :
        (cons["c1"].crashes > 0 /\ j \notin hist.acked /\ payload[j] # "absent")
            => /\ cons["c1"].mpc = "dead" => j \in Range(pfile.jobs)
               /\ (cons["c1"].running /\ cons["c1"].mpc \in {"spawn", "idle"})
                      => j \in EmittedJobs("c1")

\* C5: within one Consumer process lifetime, over start, stop, start again,
\* live deliveries and acknowledgments, no job is raised to the presentation
\* layer more than once.
C5_RaisedOnce ==
    \A i, k \in 1..Len(emitted["c1"]) :
        i # k => emitted["c1"][i].job # emitted["c1"][k].job

\* C6: mark_job_processed removes exactly the acknowledged job from the
\* persisted pending list: whenever the Consumer and the backends are at rest
\* after an acknowledgment, the pending file holds exactly the records not
\* acknowledged, in their original order, those a backend appended after the
\* Consumer's load included.
C6_AckRemovesExactlyOne ==
    (/\ hist.acked # {}
     /\ cons["c1"].mpc = "idle"
     /\ ProducersAtRest
     /\ \A j \in Range(hist.initial) : payload[j] # "absent")
        => pfile.jobs = SelectSeq(hist.initial \o SeqOfSet(hist.wrote),
                                  LAMBDA j : j \notin hist.acked)

\* C7: under each start(), the jobs taken from the pending list are emitted
\* in the list's stored order, and all of them before any job that arrived
\* over a socket is emitted.
C7_PendingBeforeLive ==
    \A i, k \in 1..Len(emitted["c1"]) :
        (i < k /\ emitted["c1"][i].gen = emitted["c1"][k].gen
               /\ emitted["c1"][k].src = "pending")
            => /\ emitted["c1"][i].src = "pending"
               /\ emitted["c1"][i].pos < emitted["c1"][k].pos

\* Job j is named by a record outside the backend that created it.
Referenced(j) ==
    \/ j \in Range(pfile.jobs)
    \/ \E t \in ThreadIds : j \in Range(socks[t].queue) \/ threads[t].msg = j
    \/ \E c \in Consumers :
         \/ j \in Range(cons[c].jobs_data)
         \/ j \in Range(JobsOf(cons[c].pending_jobs))
         \/ j \in EmittedJobs(c)

C9_PayloadFailureEndsSubmit ==
    \A p \in Producers :
        payload[p] # "complete"
            => /\ p \notin hist.tried \cup hist.wrote \cup hist.launches
               /\ ~prod[p].notified
               /\ ~Referenced(p)
               /\ prod[p].pc = "done" => prod[p].status = 1

\* C9 witness: a backend run has ended on a payload write that broke off
\* midway, while another run went on to notify.
C9_Witness ==
    \E p, q \in Producers :
        /\ prod[p].pc = "done" /\ payload[p] = "partial" /\ prod[p].status = 1
        /\ q \in hist.tried

\* C10: whenever the payload write succeeded, the backend returns exit
\* status 0 and no exception escapes it, whatever fails afterwards.
C10_OnlyPayloadWriteFatal ==
    \A p \in Producers :
        (prod[p].pc = "done" /\ payload[p] = "complete")
            => (prod[p].status = 0 /\ ~prod[p].exc)

\* C11: after a successful payload write, a run whose live delivery succeeded
\* has appended nothing and launched nothing; a run whose live delivery failed
\* on both transports has written the pending list as the records it found,
\* in their order, followed by its job once, and has attempted a launch; both
\* return 0.
C11_DeliverOrAppend ==
    \A p \in Producers :
        (prod[p].pc = "done" /\ payload[p] = "complete")
            => /\ prod[p].status = 0
               /\ prod[p].notified => p \notin hist.wrote \cup hist.launches
               /\ ~prod[p].notified
                     => /\ p \in hist.wrote /\ p \in hist.launches
                        /\ prod[p].pending_jobs = prod[p].seen \o <<p>>

\* C12: a failure of the steps around the spool directory, an unknown user
\* or a failed launch does not change the outcome: a run that wrote its
\* payload and could not notify returns 0 with its job written to the pending
\* list.
C12_DegradedStepsNotFatal ==
    \A p \in Producers :
        (prod[p].faults # {} /\ prod[p].pc = "done" /\ payload[p] = "complete")
            => /\ prod[p].status = 0
               /\ p \in hist.wrote

\* The transports on which notify_gui got the given outcome.
Outcomes(p, o) == {i \in 1..Len(prod[p].via) : prod[p].via[i][2] = o}
AttemptsOn(p, tr) == {i \in 1..Len(prod[p].via) : prod[p].via[i][1] = tr}
\* The copies of job p that are in a socket queue, in a listener thread's
\* hands or raised from a connection.
Copies(p) ==
    Cardinality({<<s, i>> \in ThreadIds \X (1..NumProducers) :
                    i <= Len(socks[s].queue) /\ socks[s].queue[i] = p})
    + Cardinality({t \in ThreadIds : threads[t].pc = "conn" /\ threads[t].msg = p})
    + Cardinality({<<c, i>> \in Consumers \X (1..(MaxOld + NumProducers)) :
                    i <= Len(emitted[c]) /\ emitted[c][i].job = p
                                         /\ emitted[c][i].src = "live"})
ReportedFailed(p) == prod[p].pc \in {"fb_exists", "fb_read", "fb_open", "fb_dump", "fb_launch"}
                     \/ (prod[p].pc = "done" /\ payload[p] = "complete" /\ ~prod[p].notified)

\* C13: a backend run tries each transport at most once, the local-domain
\* one first; it reaches the loopback one exactly when the local-domain one
\* was skipped (no socket file) or refused; it sends its record at most once
\* over both, so at most one copy of it exists on the receiving side; it
\* reports the delivery failed only when neither transport took the record.
C13_TransportSelection ==
    \A p \in Producers :
        /\ Cardinality(AttemptsOn(p, "unix")) <= 1
        /\ Cardinality(AttemptsOn(p, "tcp")) <= 1
        /\ AttemptsOn(p, "tcp") # {}
              <=> (AttemptsOn(p, "unix") # {} /\ prod[p].via[1][2] \in {"skipped", "refused"}
                     /\ prod[p].pc # "notify_tcp")
        /\ prod[p].pc = "notify_tcp" => prod[p].via[1][2] \in {"skipped", "refused"}
        /\ Cardinality(Outcomes(p, "sent")) <= 1
        /\ Copies(p) <= Cardinality(Outcomes(p, "sent"))
        /\ prod[p].notified <=> Outcomes(p, "sent") # {}
        /\ ReportedFailed(p) => /\ Len(prod[p].via) = 2
                                /\ Outcomes(p, "sent") = {}
                                /\ Copies(p) = 0

\* Reached: the socket file of a killed Consumer refused the connection and
\* the record went over the loopback transport of its successor.
C13_Witness ==
    \E p \in Producers :
        /\ prod[p].via = << <<"unix", "refused">>, <<"tcp", "sent">> >>
        /\ Copies(p) = 1

\* C14: a connection whose bytes are no job record raises no event and adds
\* nothing to the job list; the thread that read it has let go of the
\* connection and is still in its accept loop, so that a job sent afterwards
\* on the same transport is accepted and raised.
C14_MalformedConnectionDropped ==
    /\ \A c \in Consumers :
         /\ EmittedJobs(c) \subseteq Jobs
         /\ Range(JobsOf(cons[c].pending_jobs)) \subseteq Jobs
         /\ Len(cons[c].pending_jobs) <= Len(hist.initial) + Cardinality(hist.tried)
    /\ \A t \in hist.dropped : threads[t].pc \in {"loop", "conn"}
    /\ \A t \in ThreadIds : threads[t].pc = "loop" => threads[t].msg = 0

\* Reached: a listener thread dropped a malformed connection and afterwards
\* raised the job of a backend run.
C14_Witness ==
    \E t \in hist.dropped : \E i \in 1..Len(emitted[t[1]]) :
        /\ emitted[t[1]][i].src = "live"
        /\ emitted[t[1]][i].job \in hist.afterDrop

\* The accept loops that serve socket s and are not held in a read that only
\* the sender can end.
Serving(s) == {t \in ThreadIds : /\ SockOf(t) = s
                                  /\ \/ threads[t].pc = "loop"
                                     \/ threads[t].pc = "conn" /\ threads[t].msg # Hung}

\* C15: a sender that has connected and neither sends nor closes stalls only
\* its own read: whenever a job waits in the accept queue of a transport,
\* an accept loop of that transport is free to take it.
C15_HungSenderStallsOnlyItself ==
    \A s \in ThreadIds :
        (Listening(s) /\ \E i \in 1..Len(socks[s].queue) : socks[s].queue[i] \in Jobs)
            => Serving(s) # {}

\* stop() has been called on the started Consumer and every listener thread
\* it ever spawned has run to its end.
Stopped(c) ==
    /\ cons[c].mpc = "idle" /\ ~cons[c].running /\ cons[c].starts > 0
    /\ \A t \in ThreadsOf(c) : threads[t].pc \in {"none", "done"}

\* C16: once stop() has been called and the listener threads have run out,
\* whatever the interleaving was, none of the Consumer's sockets is listening
\* and the local-domain socket file does not exist.
C16_StopClosesTransports ==
    Stopped("c1") => /\ \A t \in ThreadsOf("c1") : ~Listening(t)
                     /\ unixPath = NoSock

\* start() has returned and stop() has not been called.
Running(c) == cons[c].mpc = "idle" /\ cons[c].running /\ ~cons[c].exc

\* C17: while a Consumer is Running, the listener thread of each transport
\* that its last start() spawned is coming up or in its accept loop: neither
\* a failed bind nor an accept error has ended it.
C17_RunningHasBothLoops ==
    \A c \in Consumers : \A tr \in Transports :
        Running(c) => threads[<<c, cons[c].starts, tr>>].pc \in {"unlink", "bind", "loop", "conn"}

\* C19: no record of the pending list is raised by two Consumer processes.
C19_OneConsumerPerRecord ==
    \A j \in Range(hist.initial) : ~(j \in EmittedJobs("c1") /\ j \in EmittedJobs("c2"))

\* The jobs that the load of the g-th start() of Consumer c raised, in order.
LoadedBy(c, g) ==
    JobsOf(SelectSeq(emitted[c], LAMBDA e : e.src = "pending" /\ e.gen = g))
HasPayload(j) == payload[j] # "absent"

\* C18: a load that has run to its end leaves no pending file behind; the
\* first load of a pending list raises its records in order (every record
\* whose payload file exists: the full list when none is missing), and a
\* later load, with nothing written to the file since, raises nothing.
C18_LoadIsDestructive ==
    /\ cons["c1"].mpc = "spawn" => pfile.kind = "absent"
    /\ (cons["c1"].mpc = "spawn" /\ cons["c1"].starts = 1)
          => LoadedBy("c1", 1) = SelectSeq(hist.initial, HasPayload)
    /\ hist.acked = {}
          => \A g \in Gens : g > 1 => LoadedBy("c1", g) = <<>>

\* Reached: a full list was loaded by the first start(), and the second
\* start() has loaded again and found nothing.
C18_Witness ==
    /\ cons["c1"].starts = 2 /\ cons["c1"].mpc = "idle" /\ cons["c1"].running
    /\ hist.acked = {}
    /\ Len(hist.initial) = MaxOld
    /\ LoadedBy("c1", 1) = hist.initial
    /\ LoadedBy("c1", 2) = <<>>
    /\ pfile.kind = "absent"

\* The backend run has been through json.load and append, or left them by an
\* exception.
PastAppend(p) ==
    /\ p \in hist.tried /\ ~prod[p].notified
    /\ prod[p].pc \in {"fb_open", "fb_dump", "fb_launch", "done"}

\* C20: a pending file with foreign content counts as empty on both sides:
\* start() returns without an exception and with both listener threads
\* started, and the list a backend run holds after its append, and writes,
\* is exactly its own job.
C20_ForeignFileIsEmpty ==
    /\ (cons["c1"].mpc = "idle" /\ cons["c1"].starts > 0)
          => /\ ~cons["c1"].exc
             /\ \A tr \in Transports : threads[<<"c1", 1, tr>>].pc # "none"
    /\ \A p \in Producers : PastAppend(p) => prod[p].pending_jobs = <<p>>

\* The records the load loop of Consumer c has been through.
Visited(c) == SubSeq(cons[c].jobs_data, 1, cons[c].idx - 1)

Segment(t) == Replace(Take(t, SegmentLimit), {" ", ".", "_", "-"})
Named(p) == prod[p].pc \in {"open_payload", "standalone_copy"}

\* C22: the segment of the job file name is the first 50 characters of the
\* title with every character that is not alphanumeric, space, dot,
\* underscore or hyphen replaced by an underscore, spaces kept; cutting
\* before or after replacing makes no difference.
C22_SegmentKeepsSpaces ==
    \A p \in Producers :
        Named(p) => /\ prod[p].safe_title = Segment(prod[p].title)
                    /\ Take(Replace(prod[p].title, {" ", ".", "_", "-"}), SegmentLimit)
                         = Segment(prod[p].title)

\* The sanitizer of the script that named the job file of p.
SanitizerOf(p, t) == IF prod[p].pc = "open_payload" THEN SafeTitle(t)
                     ELSE SafeTitleStandalone(t)
AllowedChars == {"a", "I", "n", "v", "o", "i", "c", "e", "0", "2", "4", " ", ".", "_", "-"}

\* C23: sanitizing is idempotent, its result has at most 50 characters, all
\* of them in [A-Za-z0-9 ._-], and "Invoice #42/2024" gives
\* "Invoice__42_2024".
C23_SegmentIsSafe ==
    \A p \in Producers :
        Named(p) => /\ SanitizerOf(p, prod[p].safe_title) = prod[p].safe_title
                    /\ Len(prod[p].safe_title) <= SegmentLimit
                    /\ Range(prod[p].safe_title) \subseteq AllowedChars
                    /\ prod[p].title = ExampleTitle
                          => prod[p].safe_title = <<"I", "n", "v", "o", "i", "c", "e", "_", "_",
                                                    "4", "2", "_", "2", "0", "2", "4">>

\* The entries of the Consumer's list that a listener thread appended.
LiveEntries(c) ==
    {i \in 1..Len(cons[c].pending_jobs) :
        i <= Len(emitted[c]) /\ emitted[c][i].src = "live"
                             /\ emitted[c][i].job = cons[c].pending_jobs[i].job}

\* C24: the record the backend sends (the seven-field JSON object and a
\* newline) comes out of the Consumer's decoding with the job_id, user, title,
\* copies, options, file_path and timestamp the backend had, whatever the
\* options hold (quotes, backslashes, newlines, nothing), and with processed
\* false; no such record is rejected.
C24_WireRoundTrip ==
    /\ hist.dropped = {}
    /\ \A i \in LiveEntries("c1") :
          LET job == cons["c1"].pending_jobs[i]
              sent == prod[job.job] IN
          /\ job.rec.job_id = sent.job_id
          /\ job.rec.user = sent.user
          /\ job.rec.title = sent.title
          /\ job.rec.copies = sent.copies
          /\ job.rec.options = sent.options
          /\ job.rec.file_path = sent.job_path
          /\ job.rec.timestamp = sent.timestamp
          /\ job.processed = FALSE

C24_Witness ==
    /\ LiveEntries("c1") # {}
    /\ prod[FirstProducer].options = <<DQ, BS>>
    /\ prod[FirstProducer].title = ExampleTitle
    /\ prod[FirstProducer].copies = 10

\* The payload files there are: where they are and what they hold.
PayloadFiles ==
    {[path |-> prod[p].job_path, content |-> prod[p].written] :
        p \in {q \in Producers : payload[q] # "absent"}}

\* The backend run came back with 0 without having notified anyone, on a
\* pending list that was empty, and a Consumer has since loaded the list.
LoadedAfterSubmit(p, c) ==
    /\ hist.initial = <<>>
    /\ prod[p].pc = "done" /\ prod[p].status = 0 /\ ~prod[p].notified
    /\ p \in hist.wrote
    /\ cons[c].mpc = "idle" /\ cons[c].starts = 1
    /\ pfile = Absent

\* C25: a job submitted while nobody listens, on an empty pending list, and
\* then loaded by the Consumer gives exactly one job, and its file_path names
\* a file that holds the bytes of the payload stream, all of them and nothing
\* else, whatever the length of the stream (none, a full chunk, a chunk and a
\* rest).
C25_PayloadRoundTrip ==
    LoadedAfterSubmit(FirstProducer, "c1") =>
        /\ Len(cons["c1"].pending_jobs) = 1
        /\ cons["c1"].pending_jobs[1].job = FirstProducer
        /\ \E f \in PayloadFiles :
              /\ f.path = cons["c1"].pending_jobs[1].rec.file_path
              /\ f.content = prod[FirstProducer].stream
              /\ Len(f.content) = Len(prod[FirstProducer].stream)

C25_Witness ==
    /\ LoadedAfterSubmit(FirstProducer, "c1")
    /\ Len(prod[FirstProducer].stream) = ChunkSize + 1
    /\ Len(cons["c1"].pending_jobs) = 1

\* The backend run left the spool as it was and went near no socket.
Untouched(p) ==
    /\ ~prod[p].mkdir
    /\ payload[p] = "absent"
    /\ p \notin hist.wrote
    /\ prod[p].via = <<>>

\* C26: an invocation without arguments prints one line, returns 0 and
\* touches neither spool nor socket; one with a number of arguments other
\* than 0, 5 or 6 returns 1 without touching the spool; one with 5 or 6
\* arguments returns 0 if the payload was stored and 1 if its write failed.
C26_ExitCodes ==
    LET r == prod[FirstProducer]
        n == Len(r.argv) IN
    r.pc = "done" =>
        /\ n = 0 => r.status = 0 /\ r.out = 1 /\ Untouched(FirstProducer)
        /\ n \notin {0, 5, 6} => r.status = 1 /\ r.out = 0 /\ Untouched(FirstProducer)
        /\ n \in {5, 6} => (r.status = 0 <=> payload[FirstProducer] = "complete")
                           /\ (r.status = 1 <=> payload[FirstProducer] # "complete")

\* C27: whatever the job id, the user name and the title are, the payload of
\* a job is written below the directory of the job's user, which is below
\* the spool root.
C27_PayloadInsideUserSpool ==
    \A p \in Producers :
        payload[p] # "absent" =>
            /\ Below(SpoolRoot, Resolve(SpoolDir(prod[p].user)))
            /\ Below(Resolve(SpoolDir(prod[p].user)), Resolve(prod[p].job_path))

\* C28: the copies field of every record the backend sends or stores is a
\* positive integer, and it is 1 when the argument is no number.
C28_CopiesPositive ==
    \A p \in Producers :
        (prod[p].wire # <<>> /\ Len(prod[p].argv) >= 5) =>
            /\ FromDict(Loads(Strip(prod[p].wire)).val).copies > 0
            /\ ~IsIntText(prod[p].argv[4]) => FromDict(Loads(Strip(prod[p].wire)).val).copies = 1

\* What one step may do to the jobs a Consumer process holds.
FlagStep(c) ==
    LET old == cons[c].pending_jobs
        new == cons'[c].pending_jobs IN
    cons'[c].crashes = cons[c].crashes =>
        /\ Len(new) >= Len(old)
        /\ \A i \in (Len(old) + 1)..Len(new) : ~new[i].processed
        /\ \A i \in 1..Len(old) :
              /\ new[i].job = old[i].job
              /\ old[i].processed => new[i].processed
              /\ (~old[i].processed /\ new[i].processed) =>
                    /\ InHandler(c)
                    /\ cons'[c].mpc = "save"
                    /\ hist'.acked = hist.acked \cup {old[i].job}
                    /\ \A k \in 1..Len(old) : k # i => new[k] = old[k]

\* C29: a job the Consumer holds is unprocessed when it is created, by the
\* load of the pending list or by a listener; only mark_job_processed, called
\* for that job, makes it processed; a processed job stays processed for as
\* long as the process lives.
C29_ProcessedOnlyByAck == [][FlagStep("c1")]_vars

C29_Witness ==
    \E i, k \in 1..Len(cons["c1"].pending_jobs) :
        /\ cons["c1"].pending_jobs[i].processed
        /\ ~cons["c1"].pending_jobs[k].processed
        /\ \E n \in 1..Len(emitted["c1"]) : emitted["c1"][n].src = "live"
        /\ \E n \in 1..Len(emitted["c1"]) : emitted["c1"][n].src # "live"
        /\ cons["c1"].mpc = "idle"

\* Job j went to a listener and has not been acknowledged since.
LiveUnacked(j) == prod[j].notified /\ j \notin hist.acked
\* Job j is in no pending file and no startup has raised it.
NotRecovered(j) ==
    /\ j \notin Range(pfile.jobs)
    /\ \A n \in 1..Len(emitted["c1"]) :
          emitted["c1"][n].job = j => emitted["c1"][n].src = "live"

C32_MarkedOnceOnEveryPath ==
    \A n \in 1..Len(emitted["c1"]) :
        LET e == emitted["c1"][n]
        IN  /\ e.marks <= 1
            /\ Returned(e) => e.marks = 1
            /\ e.marks = 1 => e.fate # "none"

\* C34: two backend invocations that differ in the timestamp or in the job
\* id have different payload file paths.
C34_DistinctPayloadPaths ==
    \A p, q \in Producers :
        (/\ p # q
         /\ prod[p].job_path.parts # <<>>
         /\ prod[q].job_path.parts # <<>>
         /\ prod[p].timestamp # prod[q].timestamp \/ prod[p].job_id # prod[q].job_id)
        => prod[p].job_path # prod[q].job_path

\* A step of the slot in which event n comes to the given fate.
Decides(n, fates) ==
    /\ n \in 1..Len(emitted["c1"])
    /\ n \in 1..Len(emitted'["c1"])
    /\ emitted["c1"][n].fate \notin fates
    /\ emitted'["c1"][n].fate \in fates

\* What one step may do to the payload files: a finished payload file changes
\* only by being deleted, in the step in which the slot has copied it to the
\* chosen place or the user has declined to keep it; a failed save and a
\* document kept for the combiner leave every payload file as it was.
PayloadStep ==
    /\ \A j \in Jobs :
         (payload[j] = "complete" /\ payload'[j] # "complete") =>
             /\ payload'[j] = "absent"
             /\ \E n \in 1..Len(emitted["c1"]) :
                  /\ Decides(n, {"saved", "discarded"})
                  /\ j \in SameFile(emitted["c1"][n].job)
    /\ \A n \in 1..Len(emitted["c1"]) :
         Decides(n, {"failed", "copied", "kept"}) => payload' = payload

\* C31: no step of the backend or of the Consumer deletes or modifies a
\* finished payload file; only the window's slot deletes one, after a
\* successful save or an explicit No, and it keeps the file otherwise.
C31_PayloadFrame == [][PayloadStep]_vars

\* C33: whenever neither a backend run nor an operation of the Consumer is
\* under way, the pending file does not exist or holds a non-empty JSON
\* array; and it does not exist when the Consumer, having acknowledged jobs,
\* holds no unacknowledged one and no backend run has appended since.
C33_PendingFileAbsentWhenEmpty ==
    (ProducersAtRest /\ MainAtRest("c1")) =>
        /\ pfile.kind = "absent" \/ (pfile.kind = "array" /\ pfile.jobs # <<>>)
        /\ (/\ cons["c1"].mpc = "idle"
            /\ hist.acked # {}
            /\ hist.wrote = {}
            /\ Unprocessed(cons["c1"].pending_jobs) = <<>>) => pfile = Absent

\* What one add_recent_directory call may do to the list.
NoDuplicate(l) == \A i, j \in 1..Len(l) : l[i] = l[j] => i = j
RecentStep(c) ==
    LET old == cons[c].settings.recent_directories.v
        new == cons'[c].settings.recent_directories.v
        max == cons[c].settings.max_recent_dirs.v
        d == PyStr(ResolveText(cons'[c].added))
        others == SelectSeq(old, LAMBDA x : x # d)
    IN  cons'[c].adds = cons[c].adds + 1 =>
            /\ NoDuplicate(new)
            /\ Len(new) <= max
            /\ new # <<>> /\ new[1] = d
            /\ Tail(new) = SubSeq(others, 1, Len(new) - 1)
            /\ Len(others) < Len(old) => Len(new) = Len(old)
            /\ Len(others) = Len(old) /\ Len(old) < max => Len(new) = Len(old) + 1

\* C35: every add_recent_directory call leaves recent_directories without
\* duplicates, with the directory just added in front and the others behind
\* it in the order they had, and no longer than max_recent_dirs; adding a
\* directory that is in the list keeps the length.
C35_RecentDirectories == [][RecentStep("c1")]_vars

\* Three calls were made, the last with a path that is not in resolved form;
\* the list is full and begins with the resolved directory.
C35_Witness ==
    /\ cons["c1"].adds = 3
    /\ cons["c1"].added = <<"/", "a", "/", ".", ".", "/", "b">>
    /\ cons["c1"].settings.max_recent_dirs.v = 2
    /\ Len(cons["c1"].settings.recent_directories.v) = 2
    /\ cons["c1"].settings.recent_directories.v[1] = PyStr(<<"/", "b">>)

\* What Settings.load() at the start of the application gives.
LoadStep(c) ==
    (cons[c].mpc = "dead" /\ cons'[c].mpc # "dead") =>
        /\ cons[c].config.by = "save" => cons'[c].settings = cons[c].config.of
        /\ cons[c].config.by = "other" => cons'[c].settings = DefaultSettings

\* C36: Settings.load() of a file that save() wrote gives settings equal to
\* the saved ones in every public field; from a file with a bad enum value it
\* gives the defaults in every field.
C36_SettingsRoundTrip == [][LoadStep("c1")]_vars

\* Settings with other enum members than the default ones, a name with
\* characters that are escaped, and a recent directory were saved by an
\* export and loaded after a restart.
C36_Witness ==
    /\ cons["c1"].mpc = "idle"
    /\ cons["c1"].crashes = 1
    /\ cons["c1"].config.by = "save"
    /\ cons["c1"].settings = cons["c1"].config.of
    /\ cons["c1"].settings.default_format = PyEnum("OutputFormat", "TIFF")
    /\ cons["c1"].settings.image_quality = PyEnum("ImageQuality", "LOW")
    /\ cons["c1"].settings.printer_name = PyStr(<<DQ, BS, LF, "e_acute">>)
    /\ cons["c1"].settings.recent_directories.v # <<>>

\* The listener threads of a Consumer that are in their accept loop on a
\* transport, waiting or with a connection.
AcceptLoops(c, tr) ==
    {t \in ThreadsOf(c) : t[3] = tr /\ threads[t].pc \in {"loop", "conn"}}

\* C38: a start() call on a running Consumer does nothing, and a Consumer
\* has at most one accept loop per transport at any time, also when stop()
\* is followed at once by start().
C38_OneAcceptLoopPerTransport ==
    \A c \in Consumers, tr \in Transports : Cardinality(AcceptLoops(c, tr)) <= 1

\* A listener thread that has been started and has not ended.
Alive(t) == threads[t].pc \in {"unlink", "bind", "loop", "conn"}
\* The thread reads from a sender that neither sends nor closes.
InSilentRead(t) == threads[t].pc = "conn" /\ threads[t].msg = Hung

\* C37: once stop() has cleared the flag, every listener thread that is
\* alive ends, unless it is held in the read of a connection whose sender
\* neither sends a newline nor closes.
C37_ListenersEndAfterStop ==
    \A t \in UnixThreadsOf("c1") :
        (~cons["c1"].running /\ Alive(t)) ~> (~Alive(t) \/ InSilentRead(t))

\* C39: while a Consumer is running with its local-domain listener bound and
\* accepting, the socket file at the well-known path is the one of that
\* listener: no other Consumer's start() or stop() removes or replaces it.
C39_SocketFileStaysWithOwner ==
    \A t \in ThreadIds :
        (/\ t[3] = "unix"
         /\ cons[t[1]].running
         /\ Listening(t)
         /\ threads[t].pc \in {"loop", "conn"}) => unixPath = t

\* ------------------------------------------------------------ two accounts
\* get_spool_dir: getpass.getuser() names the account the Consumer runs as,
\* and its pending file lies in that account's spool directory.
Account(c) == <<"a", "l">>

\* The backend is invoked for a job of the Consumer's account or of another
\* one (argv[2]).
Users == {<<"a", "l">>, <<"b", "o">>}
UserArgs == {<<<<"4", "2">>, u, t, <<"1">>, <<>>>> : u \in Users, t \in {<<>>, ExampleTitle}}

InitUsers == InitJob(UserArgs, {<<>>})

\* One backend invocation, the Consumer of the account and its user, who
\* acknowledges jobs.
NextUsers ==
    \/ P_Main(FirstProducer)
    \/ P_Prepare(FirstProducer)
    \/ ProducerStep(FirstProducer)
    \/ MainStep("c1")
    \/ AckStep("c1")
    \/ \E t \in UnixThreadsOf("c1") : ThreadStep(t)

SpecUsers == InitUsers /\ [][NextUsers]_vars

\* C40: every job a listener of the Consumer has raised has the Consumer's
\* account in its user field, and so has every such job a save of the
\* Consumer has written into the pending file of its account.
C40_OnlyJobsOfOwnAccount ==
    /\ \A i \in LiveEntries("c1") :
          cons["c1"].pending_jobs[i].rec.user = Account("c1")
    /\ \A j \in hist.resaved : prod[j].user = Account("c1")

====
